---- MODULE Spec2Model ----
(***************************************************************************)
(* Appointment scheduling core of torimAL-server: the appointment store,   *)
(* the block store and the handlers of routes/appointments.js and          *)
(* routes/blocks.js that read and write them; the services of a business   *)
(* and their routes; the signup of the users routes with its notification  *)
(* of the admins; the search for the next free slots of a worker; the      *)
(* by-day queries; and the workers and the owner of a business.            *)
(*                                                                         *)
(* Instants are milliseconds since the epoch, as in a JS Date; service     *)
(* durations are minutes, converted with minutesToMs as the code does.     *)
(* An appointment's _id is its position in the sequence appts, a block's   *)
(* _id its position in blocks: neither collection ever deletes a document. *)
(***************************************************************************)
EXTENDS Integers, Sequences, FiniteSets, TLC

VARIABLES users, appts, blocks, now, last, reqs, services, slots, biz, ops

vars == <<users, appts, blocks, now, last, reqs, services, slots, biz, ops>>

----------------------------------------------------------------------------
(* Bounds of the model *)

MaxAppts == 2        \* appointments stored in the sequential specification
MaxTicks == 1        \* minutes the clock advances
MaxStartMin == 1     \* requested starts are Day0 + 0..MaxStartMin minutes
MaxDurMin == 2       \* requested durations are 0..MaxDurMin minutes
MaxProcs == 2        \* requests in flight in the interleaved specification
MaxBlocks == 1       \* blocks stored
MaxApptsCap == 4     \* appointments stored in the specification of one client's bookings
MaxSignups == 2      \* users created by signup
MaxWorkers == 2      \* workers in the list of one business
WorkStartMin == 0    \* the work day starts this many minutes after midnight
WorkEndMin == 3      \* the work day ends this many minutes after midnight
SlotStrideMin == 1   \* minutes between two candidate slots
HorizonDays == 2     \* days the slot search looks ahead
SlotsK == 3          \* slots the search collects
MaxSlotDur == 4      \* searched durations are 1..MaxSlotDur minutes

----------------------------------------------------------------------------
(* Constants of the program *)

BLOCKING_STATUSES == {"confirmed"}

HOURS_24_MS == 24 * 60 * 60 * 1000

MinDuration == 1
MaxDuration == 480

Statuses == {"confirmed", "canceled", "completed", "no_show"}

minutesToMs(min) == min * 60 * 1000

(* The first instant a request of the model asks for: 24 hours after the   *)
(* model's clock starts, so that the cancellation cutoff falls inside the  *)
(* clock's range.                                                          *)
Day0 == HOURS_24_MS

----------------------------------------------------------------------------
(* Users: each belongs to exactly one business and carries a role.  The    *)
(* token of a caller is the triple (_id, role, business) signed at login.  *)

UserIds == {"u1", "w1", "w2", "u4"}

Businesses == {"b1", "b2"}

(* A phone number is the sequence of its characters; stored phones are in  *)
(* the form +972... .  push: the user has an expoPushToken and has not     *)
(* switched the admin notifications off.                                   *)
Prefix972 == <<"+", "9", "7", "2">>

InitUsers ==
    [u \in UserIds |->
        CASE u = "u1" -> [business |-> "b1", role |-> "user", push |-> FALSE,
                          phone |-> Prefix972 \o <<"1">>]
          [] u = "w1" -> [business |-> "b1", role |-> "user", push |-> FALSE,
                          phone |-> Prefix972 \o <<"2">>]
          [] u = "w2" -> [business |-> "b1", role |-> "admin", push |-> TRUE,
                          phone |-> Prefix972 \o <<"3">>]
          [] u = "u4" -> [business |-> "b2", role |-> "admin", push |-> FALSE,
                          phone |-> Prefix972 \o <<"4">>]]

tokenData(caller) ==
    [_id |-> caller, role |-> users[caller].role, business |-> users[caller].business]

(* UserModel.findOne({ _id, business }) *)
UserInBusiness(id, business) ==
    id \in DOMAIN users /\ users[id].business = business

----------------------------------------------------------------------------
(* Interval arithmetic of the overlap queries *)

ApptEnd(a) == a.start + a.service.duration * 60000

(* The $expr of both overlap queries: $lt: ['$start', endDate] and         *)
(* $gt: [$start + duration * 60000, startDate].                            *)
ExprOverlapSameStart(a, startDate, endDate) == a.start = startDate

ExprOverlapInclusive(a, startDate, endDate) ==
    a.start <= endDate /\ ApptEnd(a) >= startDate

ExprOverlap(a, startDate, endDate) ==
    a.start < endDate /\ ApptEnd(a) > startDate

(* AppointmentModel.findOne({ _id: {$ne: exclude}, business, worker,       *)
(*   status: {$in: BLOCKING_STATUSES}, $expr }): the ids that match.       *)
(* exclude = 0 is the query of POST /appointments, which has no _id clause.*)
FindOverlappingAnyWorker(store, business, worker, startDate, endDate, exclude) ==
    {i \in DOMAIN store :
        /\ i # exclude
        /\ store[i].business = business
        /\ store[i].status \in BLOCKING_STATUSES
        /\ ExprOverlap(store[i], startDate, endDate)}

FindOverlapping(store, business, worker, startDate, endDate, exclude) ==
    {i \in DOMAIN store :
        /\ i # exclude
        /\ store[i].business = business
        /\ store[i].worker = worker
        /\ store[i].status \in BLOCKING_STATUSES
        /\ ExprOverlap(store[i], startDate, endDate)}

(* The partial unique index { business, worker, start } over the documents *)
(* with status confirmed: would document doc, stored under id self,        *)
(* collide with another indexed document?                                  *)
NoUniqueIndex(store, doc, self) == FALSE

UniqueIndexAllStatuses(store, doc, self) ==
    \E i \in DOMAIN store :
        /\ i # self
        /\ store[i].business = doc.business
        /\ store[i].worker = doc.worker
        /\ store[i].start = doc.start

UniqueIndexViolated(store, doc, self) ==
    /\ doc.status \in {"confirmed"}
    /\ \E i \in DOMAIN store :
        /\ i # self
        /\ store[i].status \in {"confirmed"}
        /\ store[i].business = doc.business
        /\ store[i].worker = doc.worker
        /\ store[i].start = doc.start

----------------------------------------------------------------------------
(* POST /appointments *)

(* validateAppointment: Joi schema of the payload.  Ids of the model are   *)
(* well-formed, so what can fail is the service and the start.             *)
validateAppointment(payload, nowv) ==
    /\ payload.service.duration >= MinDuration
    /\ payload.service.duration <= MaxDuration
    /\ payload.service.price >= 0
    /\ payload.service.price <= 10000
    /\ payload.start > nowv

(* The checks before the write, in the order of the handler. "PASS" means  *)
(* the handler goes on to AppointmentModel.create.                         *)
CreateChecks(store, business, req, nowv) ==
    LET endDate == req.start + minutesToMs(req.service.duration) IN
    IF ~validateAppointment(req, nowv) THEN "VALIDATION_ERROR"
    ELSE IF ~UserInBusiness(req.client, business) THEN "CLIENT_NOT_IN_BUSINESS"
    ELSE IF ~UserInBusiness(req.worker, business) THEN "WORKER_NOT_IN_BUSINESS"
    ELSE IF FindOverlapping(store, business, req.worker, req.start, endDate, 0) # {}
         THEN "SLOT_TAKEN"
    ELSE "PASS"

(* The document of AppointmentModel.create: the service of the payload is  *)
(* embedded in it, not a reference to a service of the business.           *)
NewAppointmentDurationOnly(business, req) ==
    [business |-> business,
     client   |-> req.client,
     worker   |-> req.worker,
     service  |-> [name |-> "cut", duration |-> req.service.duration, price |-> 50],
     start    |-> req.start,
     status   |-> "confirmed"]

NewAppointment(business, req) ==
    [business |-> business,
     client   |-> req.client,
     worker   |-> req.worker,
     service  |-> req.service,
     start    |-> req.start,
     status   |-> "confirmed"]

(* AppointmentModel.create and the catch of error code 11000 *)
CreateWrite(store, business, req) ==
    LET doc == NewAppointment(business, req) IN
    IF UniqueIndexViolated(store, doc, 0)
    THEN [code |-> "SLOT_TAKEN", store |-> store]
    ELSE [code |-> "CREATED", store |-> Append(store, doc)]

----------------------------------------------------------------------------
(* PATCH /appointments/:id/status (authAdmin) *)

(* AppointmentModel.findOne({ _id: id, business }) *)
FindApptAnyBusiness(store, id, business) == id \in DOMAIN store

FindApptInBusiness(store, id, business) ==
    id \in DOMAIN store /\ store[id].business = business

(* The checks before the write: the role check of authAdmin, the lookup    *)
(* scoped to the caller's business and, for the target confirmed, the      *)
(* overlap query that leaves out the appointment's own _id.                *)
StatusChecksNoConflict(store, tok, id, status) ==
    IF tok.role # "admin" THEN "FORBIDDEN"
    ELSE IF ~FindApptInBusiness(store, id, tok.business) THEN "NOT_FOUND"
    ELSE IF status \notin Statuses THEN "VALIDATION_ERROR"
    ELSE "PASS"

StatusChecksAnyWorker(store, tok, id, status) ==
    IF tok.role # "admin" THEN "FORBIDDEN"
    ELSE IF ~FindApptInBusiness(store, id, tok.business) THEN "NOT_FOUND"
    ELSE IF status \notin Statuses THEN "VALIDATION_ERROR"
    ELSE IF /\ status = "confirmed"
            /\ FindOverlappingAnyWorker(store, store[id].business, store[id].worker,
                               store[id].start,
                               store[id].start + minutesToMs(store[id].service.duration),
                               id) # {}
         THEN "SLOT_TAKEN"
    ELSE "PASS"

StatusChecks(store, tok, id, status) ==
    IF tok.role # "admin" THEN "FORBIDDEN"
    ELSE IF ~FindApptInBusiness(store, id, tok.business) THEN "NOT_FOUND"
    ELSE IF status \notin Statuses THEN "VALIDATION_ERROR"
    ELSE IF /\ status = "confirmed"
            /\ FindOverlapping(store, store[id].business, store[id].worker,
                               store[id].start,
                               store[id].start + minutesToMs(store[id].service.duration),
                               id) # {}
         THEN "SLOT_TAKEN"
    ELSE "PASS"

(* AppointmentModel.findOneAndUpdate({ _id: id, business }, { status }):   *)
(* no match answers 404, a duplicate key is caught by the generic handler. *)
StatusWrite(store, tok, id, status) ==
    IF ~FindApptInBusiness(store, id, tok.business)
    THEN [code |-> "NOT_FOUND", store |-> store]
    ELSE IF UniqueIndexViolated(store, [store[id] EXCEPT !.status = status], id)
    THEN [code |-> "SERVER_ERROR", store |-> store]
    ELSE [code |-> "OK", store |-> [store EXCEPT ![id].status = status]]

----------------------------------------------------------------------------
(* PATCH /appointments/:id/cancel (auth) *)

(* AppointmentModel.findOne({ _id: id, client: clientId, business }) *)
FindOwnAppt(store, id, tok) ==
    /\ id \in DOMAIN store
    /\ store[id].client = tok._id
    /\ store[id].business = tok.business

TooLate(diffMs) == diffMs < HOURS_24_MS

CancelChecksNoStatus(store, tok, id, nowv) ==
    IF ~FindOwnAppt(store, id, tok) THEN "NOT_FOUND"
    ELSE IF TooLate(store[id].start - nowv) THEN "CANNOT_CANCEL_WITHIN_24H"
    ELSE "PASS"

CancelChecks(store, tok, id, nowv) ==
    IF ~FindOwnAppt(store, id, tok) THEN "NOT_FOUND"
    ELSE IF store[id].status # "confirmed" THEN "ONLY_CONFIRMED_CAN_BE_CANCELED"
    ELSE IF TooLate(store[id].start - nowv) THEN "CANNOT_CANCEL_WITHIN_24H"
    ELSE "PASS"

(* appt.status = 'canceled'; await appt.save() *)
CancelWrite(store, id) ==
    [code |-> "OK", store |-> [store EXCEPT ![id].status = "canceled"]]

----------------------------------------------------------------------------
(* POST /blocks and DELETE /blocks/:id (authAdmin) *)

(* validateBlock: end is a date greater than start *)
validateBlock(payload) == payload.end > payload.start

(* blockSchema.pre('save') *)
BlockPreSaveOk(doc) == ~(doc.end <= doc.start)

NewBlock(business, r) ==
    [business |-> business, resource |-> r.resource,
     start |-> r.start, end |-> r.end, active |-> TRUE]

CreateBlockResult(store, tok, r) ==
    IF tok.role # "admin" THEN [code |-> "FORBIDDEN", store |-> store]
    ELSE IF ~validateBlock(r) THEN [code |-> "VALIDATION_ERROR", store |-> store]
    ELSE IF ~BlockPreSaveOk(NewBlock(tok.business, r))
    THEN [code |-> "SERVER_ERROR", store |-> store]
    ELSE [code |-> "CREATED", store |-> Append(store, NewBlock(tok.business, r))]

(* BlockModel.findOneAndUpdate({ _id: id, business }, { active: false }) *)
DeleteBlockResult(store, tok, id) ==
    IF tok.role # "admin" THEN [code |-> "FORBIDDEN", store |-> store]
    ELSE IF ~(id \in DOMAIN store /\ store[id].business = tok.business)
    THEN [code |-> "NOT_FOUND", store |-> store]
    ELSE [code |-> "OK", store |-> [store EXCEPT ![id].active = FALSE]]

(* The midnight that opens a day; days are counted from the epoch *)
dayStartOf(day) == day * HOURS_24_MS

(* GET /appointments/by-day?date=...&worker=... (auth).  dayStart is       *)
(* setHours(0,0,0,0) and dayEnd setHours(23,59,59,999) of the day asked;   *)
(* the query is { business, worker, start: { $gte: dayStart, $lt: dayEnd } *)
(* }, on every status.  A request without a worker is answered 400.        *)
AppointmentsByDay(store, business, day, worker) ==
    IF worker = "none" THEN [code |-> "VALIDATION_ERROR", result |-> {}]
    ELSE [code |-> "OK",
          result |-> {i \in DOMAIN store :
                        /\ store[i].business = business
                        /\ store[i].worker = worker
                        /\ store[i].start >= dayStartOf(day)
                        /\ store[i].start < dayStartOf(day) + HOURS_24_MS - 1}]

(* GET /blocks/by-day?date=...&worker=... (auth).  dayStart is the         *)
(* midnight that opens the day, dayEnd the next midnight; a block is       *)
(* selected when it is active, belongs to the caller's business and        *)
(* start < dayEnd and end > dayStart.  With a worker the business-wide     *)
(* blocks and that worker's blocks are selected, without one only the      *)
(* business-wide blocks.  The result is the set of the ids selected.       *)
(* The by-day selection without the active flag *)
BlocksByDayAnyActive(store, business, day, worker) ==
    {i \in DOMAIN store :
        /\ store[i].business = business
        /\ store[i].start < dayStartOf(day + 1)
        /\ store[i].end > dayStartOf(day)
        /\ IF worker # "none" THEN store[i].resource \in {"null", worker}
           ELSE store[i].resource = "null"}

BlocksByDay(store, business, day, worker) ==
    {i \in DOMAIN store :
        /\ store[i].business = business
        /\ store[i].active
        /\ store[i].start < dayStartOf(day + 1)
        /\ store[i].end > dayStartOf(day)
        /\ IF worker # "none" THEN store[i].resource \in {"null", worker}
           ELSE store[i].resource = "null"}

(* A query parameter from or to that the request does not carry *)
NoDay == -1

(* GET /blocks/list (auth): only active blocks unless includeInactive is   *)
(* "true"; from and to bound the start (to includes its whole day); a      *)
(* worker selects the business-wide blocks and that worker's, otherwise a  *)
(* resource selects strictly.                                              *)
BlocksList(store, business, q) ==
    {i \in DOMAIN store :
        /\ store[i].business = business
        /\ (~q.includeInactive) => store[i].active
        /\ (q.from # NoDay) => store[i].start >= dayStartOf(q.from)
        /\ (q.to # NoDay) => store[i].start < dayStartOf(q.to + 1)
        /\ IF q.worker # "none" THEN store[i].resource \in {"null", q.worker}
           ELSE (q.resource # "none") => store[i].resource = q.resource}

----------------------------------------------------------------------------
(* PATCH /blocks/:id (authAdmin) *)

BlockFields == {"start", "end", "resource", "active"}

(* updateBlockSchema: every key is optional, at least one is required, and *)
(* end must be greater than Joi.ref("start"), the start of the same        *)
(* payload: an end without a start has no date to refer to and fails the   *)
(* rule, a start without an end is compared with nothing.                  *)
updateBlockSchema(value) ==
    /\ value.has # {}
    /\ ("end" \in value.has) => ("start" \in value.has /\ value.end > value.start)

(* The $set of findOneAndUpdate: the keys of the payload replace the       *)
(* fields of the document, the other fields stay.                          *)
ApplyBlockUpdate(doc, value) ==
    [business |-> doc.business,
     resource |-> IF "resource" \in value.has THEN value.resource ELSE doc.resource,
     start    |-> IF "start" \in value.has THEN value.start ELSE doc.start,
     end      |-> IF "end" \in value.has THEN value.end ELSE doc.end,
     active   |-> IF "active" \in value.has THEN value.active ELSE doc.active]

(* BlockModel.findOneAndUpdate({ _id: id, business }, value, { new: true }) *)
(* is an update query: the pre('save') hook of the schema does not run.    *)
UpdateBlockResult(store, tok, id, value) ==
    IF tok.role # "admin" THEN [code |-> "FORBIDDEN", store |-> store]
    ELSE IF ~updateBlockSchema(value) THEN [code |-> "VALIDATION_ERROR", store |-> store]
    ELSE IF ~(id \in DOMAIN store /\ store[id].business = tok.business)
    THEN [code |-> "NOT_FOUND", store |-> store]
    ELSE [code |-> "OK", store |-> [store EXCEPT ![id] = ApplyBlockUpdate(@, value)]]

----------------------------------------------------------------------------
(* PATCH and DELETE /businesses/:id/services/:serviceId (authAdmin) *)

(* The services of a business are subdocuments [_id, name, duration,       *)
(* price] of the business document, in the order they were pushed.         *)
ServiceFields == {"name", "duration", "price"}

(* serviceUpdateSchema *)
serviceUpdateSchema(value) ==
    /\ value.has # {}
    /\ ("duration" \in value.has) => (value.duration >= 1 /\ value.duration <= 480)
    /\ ("price" \in value.has) => value.price >= 0

(* biz.services.id(serviceId) *)
ServiceIndex(list, serviceId) == {k \in DOMAIN list : list[k]._id = serviceId}

ApplyServiceUpdate(sv, value) ==
    [_id      |-> sv._id,
     name     |-> IF "name" \in value.has THEN value.name ELSE sv.name,
     duration |-> IF "duration" \in value.has THEN value.duration ELSE sv.duration,
     price    |-> IF "price" \in value.has THEN value.price ELSE sv.price]

(* The handler writes the business document and nothing else *)
UpdateServiceResult(store, tok, businessId, serviceId, value) ==
    IF tok.role # "admin" THEN [code |-> "FORBIDDEN", store |-> store]
    ELSE IF tok.business # businessId THEN [code |-> "ACCESS_DENIED", store |-> store]
    ELSE IF ~serviceUpdateSchema(value) THEN [code |-> "VALIDATION_ERROR", store |-> store]
    ELSE IF ServiceIndex(store[businessId], serviceId) = {}
    THEN [code |-> "NOT_FOUND", store |-> store]
    ELSE LET k == CHOOSE x \in ServiceIndex(store[businessId], serviceId) : TRUE IN
         [code |-> "OK",
          store |-> [store EXCEPT ![businessId][k] = ApplyServiceUpdate(@, value)]]

(* service.deleteOne(); biz.save() *)
DeleteServiceResult(store, tok, businessId, serviceId) ==
    IF tok.role # "admin" THEN [code |-> "FORBIDDEN", store |-> store]
    ELSE IF tok.business # businessId THEN [code |-> "ACCESS_DENIED", store |-> store]
    ELSE IF ServiceIndex(store[businessId], serviceId) = {}
    THEN [code |-> "NOT_FOUND", store |-> store]
    ELSE [code |-> "OK",
          store |-> [store EXCEPT ![businessId] =
                        SelectSeq(@, LAMBDA sv : sv._id # serviceId)]]

----------------------------------------------------------------------------
(* notifyAdmins and POST /signup, in the two versions of the users routes  *)

(* What the world outside the handler does during one notification: the    *)
(* admin lookup fails, the push service throws, every chunk fails to send, *)
(* or the pushes are sent.                                                 *)
NotifyEnvs == {"lookup_fails", "send_throws", "delivery_fails", "delivered"}

EventTypes == {"appointment_created", "appointment_canceled", "user_signup"}

(* UserModel.find({ business, role: "admin", expoPushToken, enabled })     *)
AdminTokens(store, businessId) ==
    {u \in DOMAIN store :
        /\ store[u].business = businessId
        /\ store[u].role = "admin"
        /\ store[u].push}

(* sendPushToManyTokens: a failed chunk is caught and counted *)
sendPushToManyTokens(tokens, env) ==
    IF env = "send_throws" THEN [raised |-> TRUE, ok |-> FALSE, sent |-> 0]
    ELSE IF env = "delivery_fails" THEN [raised |-> FALSE, ok |-> TRUE, sent |-> 0]
    ELSE [raised |-> FALSE, ok |-> TRUE, sent |-> Cardinality(tokens)]

(* notifyAdmins of routes/users.js: the whole body is inside try/catch,    *)
(* and the push is awaited inside it.                                      *)
notifyAdmins(store, businessId, eventType, env) ==
    IF eventType \notin EventTypes THEN [raised |-> FALSE, ok |-> FALSE, sent |-> 0]
    ELSE IF env = "lookup_fails" THEN [raised |-> FALSE, ok |-> FALSE, sent |-> 0]
    ELSE IF AdminTokens(store, businessId) = {}
    THEN [raised |-> FALSE, ok |-> TRUE, sent |-> 0]
    ELSE LET sent == sendPushToManyTokens(AdminTokens(store, businessId), env) IN
         IF sent.raised THEN [raised |-> FALSE, ok |-> FALSE, sent |-> 0] ELSE sent

(* notifyAdmins of the older users routes: no try/catch, so a rejected     *)
(* lookup or push rejects the promise it returns.                          *)
notifyAdminsOld(store, businessId, eventType, env) ==
    IF eventType \notin EventTypes THEN [raised |-> FALSE, ok |-> FALSE, sent |-> 0]
    ELSE IF env = "lookup_fails" THEN [raised |-> TRUE, ok |-> FALSE, sent |-> 0]
    ELSE IF AdminTokens(store, businessId) = {}
    THEN [raised |-> FALSE, ok |-> TRUE, sent |-> 0]
    ELSE sendPushToManyTokens(AdminTokens(store, businessId), env)

StartsWith(sq, pre) == Len(sq) >= Len(pre) /\ SubSeq(sq, 1, Len(pre)) = pre

(* toE164IL: a number that starts with +972 stays, otherwise a leading 0   *)
(* becomes +972.                                                           *)
toE164IL(raw) ==
    IF raw = << >> THEN raw
    ELSE IF StartsWith(raw, Prefix972) THEN raw
    ELSE IF Head(raw) = "0" THEN Prefix972 \o Tail(raw)
    ELSE raw

(* UserModel.findOne({ phone, business: businessId }) *)
FindUserByPhone(store, phone, businessId) ==
    {u \in DOMAIN store : store[u].phone = phone /\ store[u].business = businessId}

NewUserIds == <<"n1", "n2", "n3", "n4", "n5", "n6">>

NextUserId(store) == NewUserIds[Cardinality(DOMAIN store \ UserIds) + 1]

(* UserModel.create({ name, phone, business: businessId, role: "user" })   *)
AddUser(store, phone, businessId) ==
    [u \in DOMAIN store \cup {NextUserId(store)} |->
        IF u \in DOMAIN store THEN store[u]
        ELSE [business |-> businessId, role |-> "user", push |-> FALSE, phone |-> phone]]

(* POST /signup of routes/users.js: the notification is started after the  *)
(* user is created and is not awaited; its .catch only logs.               *)
SignupResult(store, r, env) ==
    LET phone == toE164IL(r.phone) IN
    IF r.phone = << >> THEN [code |-> "INVALID_PHONE", store |-> store, notify |-> "none"]
    ELSE IF FindUserByPhone(store, phone, r.business) # {}
    THEN [code |-> "USER_EXISTS", store |-> store, notify |-> "none"]
    ELSE LET created == AddUser(store, phone, r.business)
             n == notifyAdmins(created, r.business, "user_signup", env)
         IN [code |-> "OK", store |-> created,
             notify |-> IF n.raised THEN "raised"
                        ELSE IF ~n.ok THEN "failed"
                        ELSE IF n.sent = 0 THEN "sent_none" ELSE "sent"]

(* POST /signup of the older users routes: the notification is awaited     *)
(* inside its own try/catch, which only logs.                              *)
SignupOldResult(store, r, env) ==
    LET phone == toE164IL(r.phone) IN
    IF r.phone = << >> THEN [code |-> "INVALID_PHONE", store |-> store, notify |-> "none"]
    ELSE IF FindUserByPhone(store, phone, r.business) # {}
    THEN [code |-> "USER_EXISTS", store |-> store, notify |-> "none"]
    ELSE LET created == AddUser(store, phone, r.business)
             n == notifyAdminsOld(created, r.business, "user_signup", env)
         IN [code |-> "OK", store |-> created,
             notify |-> IF n.raised THEN "raised"
                        ELSE IF ~n.ok THEN "failed"
                        ELSE IF n.sent = 0 THEN "sent_none" ELSE "sent"]

(* userSchema.index({ phone: 1, business: 1 }, { unique: true }): a create *)
(* whose phone and business a stored user already has fails with a         *)
(* duplicate-key error.                                                    *)
(* No index: every create is accepted *)
NoUsersIndex(store, phone, businessId) == FALSE

UsersIndexViolated(store, phone, businessId) ==
    \E u \in DOMAIN store : store[u].phone = phone /\ store[u].business = businessId

(* UserModel.create of POST /signup and what follows it: a create the      *)
(* index rejects throws into the handler's catch, which answers 500 and    *)
(* stores nothing; otherwise the notification is started and the answer is *)
(* the new user.                                                           *)
SignupCreate(store, phone, businessId, env) ==
    IF UsersIndexViolated(store, phone, businessId)
    THEN [code |-> "SERVER_ERROR", store |-> store, notify |-> "none"]
    ELSE LET created == AddUser(store, phone, businessId)
             n == notifyAdmins(created, businessId, "user_signup", env)
         IN [code |-> "OK", store |-> created,
             notify |-> IF n.raised THEN "raised"
                        ELSE IF ~n.ok THEN "failed"
                        ELSE IF n.sent = 0 THEN "sent_none" ELSE "sent"]

----------------------------------------------------------------------------
(* Workers and owner of a business (authAdmin) *)

(* normalizePhone: an empty phone is "", a leading 0 becomes +972, any      *)
(* other number stays                                                      *)
normalizePhone(phone) ==
    IF phone = << >> THEN phone
    ELSE IF Head(phone) = "0" THEN Prefix972 \o Tail(phone)
    ELSE phone

(* UserModel.findOne({ phone: normalizedPhone }): the users with the phone, *)
(* of whatever business; findOne answers one of them.                      *)
FindUsersByPhoneOnly(store, phone) == {u \in DOMAIN store : store[u].phone = phone}

(* userToAdd.role = "admin"; await userToAdd.save(), when the role is not  *)
(* admin already                                                           *)
UpgradeToAdmin(store, u) ==
    IF store[u].role # "admin" THEN [store EXCEPT ![u].role = "admin"] ELSE store

InSeq(x, sq) == \E i \in DOMAIN sq : sq[i] = x

(* POST /businesses/:id/workers.  found is the user findOne answered, or   *)
(* "none".  The upgrade of the role is saved before the business is read.  *)
AddWorkerResult(us, bz, tok, businessId, phone, found) ==
    IF tok.role # "admin" THEN [code |-> "FORBIDDEN", users |-> us, biz |-> bz]
    ELSE IF tok.business # businessId
    THEN [code |-> "WRONG_BUSINESS", users |-> us, biz |-> bz]
    ELSE IF phone = << >> THEN [code |-> "VALIDATION_ERROR", users |-> us, biz |-> bz]
    ELSE IF found = "none" THEN [code |-> "USER_NOT_FOUND", users |-> us, biz |-> bz]
    ELSE LET upgraded == UpgradeToAdmin(us, found) IN
         IF businessId \notin DOMAIN bz
         THEN [code |-> "BUSINESS_NOT_FOUND", users |-> upgraded, biz |-> bz]
         ELSE IF bz[businessId].owner = found
         THEN [code |-> "ALREADY_OWNER", users |-> upgraded, biz |-> bz]
         ELSE IF InSeq(found, bz[businessId].workers)
         THEN [code |-> "ALREADY_WORKER", users |-> upgraded, biz |-> bz]
         ELSE [code |-> "OK", users |-> upgraded,
               biz |-> [bz EXCEPT ![businessId].workers = Append(@, found)]]

(* DELETE /businesses/:id/workers/:workerId: $pull of the id *)
RemoveWorkerResult(bz, tok, businessId, workerId) ==
    IF tok.role # "admin" THEN [code |-> "FORBIDDEN", biz |-> bz]
    ELSE IF tok.business # businessId THEN [code |-> "WRONG_BUSINESS", biz |-> bz]
    ELSE IF businessId \notin DOMAIN bz THEN [code |-> "BUSINESS_NOT_FOUND", biz |-> bz]
    ELSE [code |-> "OK",
          biz |-> [bz EXCEPT ![businessId].workers =
                                SelectSeq(@, LAMBDA w : w # workerId)]]

(* PATCH /businesses/:id/set-owner: findOneAndUpdate({ _id }, { owner }) *)
SetOwnerResult(bz, tok, businessId, ownerId) ==
    IF tok.role # "admin" THEN [code |-> "FORBIDDEN", biz |-> bz]
    ELSE IF businessId \notin DOMAIN bz THEN [code |-> "OK", biz |-> bz]
    ELSE [code |-> "OK", biz |-> [bz EXCEPT ![businessId].owner = ownerId]]

----------------------------------------------------------------------------
(* Slot Finder: the search for the next free start instants of a worker.   *)
(* Days are the 24-hour periods counted from the epoch; the work day of    *)
(* day d is [DayWorkStart(d), DayWorkEnd(d)).                              *)

Max(a, b) == IF a >= b THEN a ELSE b
Min(a, b) == IF a <= b THEN a ELSE b

DayOf(t) == t \div HOURS_24_MS

DayWorkStart(d) == d * HOURS_24_MS + minutesToMs(WorkStartMin)
DayWorkEnd(d) == d * HOURS_24_MS + minutesToMs(WorkEndMin)

(* Step 1: the cursor starts at max(now, work-day start of today), or at   *)
(* the work-day start of tomorrow when now is at or after today's end.     *)
InitialCursor(nowv) ==
    IF nowv >= DayWorkEnd(DayOf(nowv))
    THEN DayWorkStart(DayOf(nowv) + 1)
    ELSE Max(nowv, DayWorkStart(DayOf(nowv)))

(* Step 2: the day's effective window starts at the cursor on the cursor's *)
(* own day and at the work-day start on every later day.                   *)
WindowStart(d, cursor) ==
    IF DayOf(cursor) = d THEN Max(DayWorkStart(d), cursor) ELSE DayWorkStart(d)

(* Step 3: the day's confirmed appointments of the worker, fetched once    *)
DayAppointments(store, business, worker, d) ==
    {i \in DOMAIN store :
        /\ store[i].business = business
        /\ store[i].worker = worker
        /\ store[i].status \in BLOCKING_STATUSES
        /\ DayOf(store[i].start) = d}

(* Step 4: the candidates of the day, one every SlotStrideMin minutes from *)
(* the window's start while they are inside the window.                    *)
Candidates(d, cursor) ==
    LET ws == WindowStart(d, cursor)
        we == DayWorkEnd(d)
        n == IF we <= ws THEN 0 ELSE ((we - ws - 1) \div minutesToMs(SlotStrideMin)) + 1
    IN [k \in 1..n |-> ws + (k - 1) * minutesToMs(SlotStrideMin)]

(* A candidate is rejected when candidate + duration exceeds the day's     *)
(* work end or overlaps one of the fetched appointments.                   *)
SlotFreeIgnoresWorkEnd(store, busy, d, c, duration) ==
    \A i \in busy : ~ExprOverlap(store[i], c, c + minutesToMs(duration))

SlotFree(store, busy, d, c, duration) ==
    /\ c + minutesToMs(duration) <= DayWorkEnd(d)
    /\ \A i \in busy : ~ExprOverlap(store[i], c, c + minutesToMs(duration))

FreeOfDay(store, business, worker, duration, d, cursor) ==
    LET busy == DayAppointments(store, business, worker, d) IN
    SelectSeq(Candidates(d, cursor), LAMBDA c : SlotFree(store, busy, d, c, duration))

Take(sq, n) == SubSeq(sq, 1, Min(n, Len(sq)))

(* Step 5: the search stops as soon as SlotsK slots are collected or the   *)
(* horizon is exhausted.                                                   *)
SearchDoneAtHorizonOnly(out, scanned) == scanned >= HorizonDays

SearchDone(out, scanned) == Len(out) >= SlotsK \/ scanned >= HorizonDays

IdleSlots ==
    [pc |-> "idle", business |-> "none", worker |-> "none", duration |-> 0,
     cursor |-> 0, day |-> 0, scanned |-> 0, out |-> << >>]

StartSearch(business, worker, duration, nowv) ==
    [pc |-> "run", business |-> business, worker |-> worker, duration |-> duration,
     cursor |-> InitialCursor(nowv), day |-> DayOf(InitialCursor(nowv)),
     scanned |-> 0, out |-> << >>]

(* One day of the search: the free candidates of the day are recorded in   *)
(* order until SlotsK are collected.                                       *)
ScanDayResult(st, store) ==
    LET free == FreeOfDay(store, st.business, st.worker, st.duration, st.day, st.cursor)
        out == st.out \o Take(free, SlotsK - Len(st.out))
    IN [st EXCEPT !.out = out, !.day = st.day + 1, !.scanned = st.scanned + 1,
                  !.pc = IF SearchDone(out, st.scanned + 1) THEN "done" ELSE "run"]

----------------------------------------------------------------------------
(* The record of the last request and its response *)

NoReq ==
    [op |-> "none", caller |-> "none", client |-> "none", worker |-> "none",
     start |-> 0, end |-> 0, duration |-> 0, id |-> 0, status |-> "none",
     code |-> "none", name |-> "none", price |-> 0, has |-> {},
     business |-> "none", phone |-> << >>, notify |-> "none", result |-> {}]

Service(d) == [name |-> "cut", duration |-> d, price |-> 50]

StartInputs == {Day0 + minutesToMs(k) : k \in 0..MaxStartMin}
DurationInputs == 0..MaxDurMin

(* Requests of the model: every combination of worker, start and duration  *)
(* for the client u1 of business b1, and the requests whose client or      *)
(* caller belongs to the other business.                                   *)
CreateInputs ==
    {[caller |-> "u1", client |-> "u1", worker |-> w, start |-> s, service |-> Service(d)] :
        w \in {"w1", "w2"}, s \in StartInputs, d \in DurationInputs}
    \cup
    {[caller |-> c[1], client |-> c[2], worker |-> "w1", start |-> Day0, service |-> Service(1)] :
        c \in {<<"u1", "u4">>, <<"u4", "u1">>, <<"u4", "u4">>}}
    \cup
    {[caller |-> "w1", client |-> "u1", worker |-> "w2", start |-> Day0, service |-> Service(1)]}

ApptIds == 1..MaxAppts

(* Status changes: the admin of b1 with every target on every id, the      *)
(* admin of the other business and a caller without the admin role.        *)
StatusInputs ==
    {[caller |-> "w2", id |-> i, status |-> st] : i \in ApptIds, st \in Statuses}
    \cup {[caller |-> "u4", id |-> i, status |-> "canceled"] : i \in ApptIds}
    \cup {[caller |-> "u1", id |-> 1, status |-> "canceled"]}

(* Cancels: the client u1 on every id, a user of the same business who is  *)
(* not the client, and a user of the other business.                       *)
CancelInputs ==
    {[caller |-> "u1", id |-> i] : i \in ApptIds}
    \cup {[caller |-> c, id |-> 1] : c \in {"w1", "u4"}}

(* Blocks: the admin of b1 blocks the whole business or the worker w1 for  *)
(* one of the model's minutes; one payload has end = start.                *)
BlockInputs ==
    {[caller |-> "w2", resource |-> res, start |-> s, end |-> s + minutesToMs(1)] :
        res \in {"null", "w1"}, s \in StartInputs}
    \cup {[caller |-> "w2", resource |-> "null", start |-> Day0, end |-> Day0]}
    \cup {[caller |-> "u1", resource |-> "null", start |-> Day0, end |-> Day0 + minutesToMs(1)]}

BlockIds == 1..MaxBlocks

DeleteBlockInputs == {[caller |-> c, id |-> i] : c \in {"w2", "u4"}, i \in BlockIds}

(* One client's bookings: one-minute appointments of u1 with either worker *)
CapInputs ==
    {[caller |-> "u1", client |-> "u1", worker |-> w, start |-> s, service |-> Service(1)] :
        w \in {"w1", "w2"}, s \in StartInputs}

CapCancelInputs == {[caller |-> "u1", id |-> i] : i \in 1..MaxApptsCap}

(* Block updates: every subset of the four fields, by the admin of b1 and  *)
(* by the admin of the other business, and one by a caller who is no admin *)
UpdateBlockInputs ==
    {[caller |-> c, id |-> i, has |-> h, start |-> s, end |-> Day0 + minutesToMs(1),
      resource |-> "w1", active |-> FALSE] :
        c \in {"w2", "u4"}, i \in BlockIds, h \in SUBSET BlockFields, s \in StartInputs}
    \cup
    {[caller |-> "u1", id |-> 1, has |-> {"active"}, start |-> Day0,
      end |-> Day0 + minutesToMs(1), resource |-> "w1", active |-> FALSE]}

(* Requests of the two businesses: appointments and blocks of b1 as above, *)
(* and an appointment and a block of b2 made by its admin u4.              *)
TenantCreateInputs ==
    {[caller |-> "u1", client |-> "u1", worker |-> "w1", start |-> Day0, service |-> Service(1)],
     [caller |-> "u4", client |-> "u4", worker |-> "u4", start |-> Day0, service |-> Service(1)]}

TenantBlockInputs ==
    {[caller |-> c, resource |-> "null", start |-> Day0, end |-> Day0 + minutesToMs(1)] :
        c \in {"w2", "u4"}}

TenantStatusInputs ==
    {[caller |-> c, id |-> 1, status |-> st] :
        c \in {"w2", "u4"}, st \in {"canceled", "confirmed"}}

TenantCancelInputs == {[caller |-> c, id |-> 1] : c \in {"u1", "w1", "u4"}}

TenantUpdateBlockInputs ==
    {r \in UpdateBlockInputs : r.has \in {{"active"}, {"start"}, {"resource"}}}

(* The owner and the workers of the businesses when the model starts: the  *)
(* admin of each business owns it, and no worker has been added yet.       *)
InitBiz ==
    [b \in Businesses |->
        IF b = "b1" THEN [owner |-> "w2", workers |-> << >>]
        ELSE [owner |-> "u4", workers |-> << >>]]

(* The services of the businesses when the model starts *)
InitServices ==
    [b \in Businesses |->
        IF b = "b1"
        THEN <<[_id |-> 1, name |-> "cut", duration |-> 1, price |-> 50],
               [_id |-> 2, name |-> "color", duration |-> 2, price |-> 80]>>
        ELSE << >>]

ServiceIds == 1..3

(* Service updates by the admin of b1: the duration, the name and price,   *)
(* all three or nothing, on a service that exists or not; one with an      *)
(* invalid duration, one by the admin of b2 and one by a caller who is no  *)
(* admin.                                                                  *)
UpdateServiceInputs ==
    {[caller |-> "w2", business |-> "b1", id |-> i, has |-> h,
      name |-> "beard", duration |-> d, price |-> 60] :
        i \in ServiceIds, d \in 1..MaxDurMin,
        h \in {{}, {"duration"}, {"name", "price"}, ServiceFields}}
    \cup
    {[caller |-> c, business |-> "b1", id |-> 1, has |-> {"duration"},
      name |-> "beard", duration |-> d, price |-> 60] :
        c \in {"u4", "u1"}, d \in {1}}
    \cup
    {[caller |-> "w2", business |-> "b1", id |-> 1, has |-> {"duration"},
      name |-> "beard", duration |-> 0, price |-> 60]}

DeleteServiceInputs ==
    {[caller |-> "w2", business |-> "b1", id |-> i] : i \in ServiceIds}
    \cup {[caller |-> "u4", business |-> "b1", id |-> 1]}

(* A client books one of the services the business offers at the moment    *)
BookInputs ==
    {[caller |-> "u1", client |-> "u1", worker |-> "w1", start |-> s,
      service |-> [name |-> sv.name, duration |-> sv.duration, price |-> sv.price]] :
        s \in StartInputs,
        sv \in {services["b1"][k] : k \in DOMAIN services["b1"]}}

(* Signups: the phone number of the verified token in local and in         *)
(* international form, a number a user of b1 already has, and a token      *)
(* without a phone number.                                                 *)
SignupInputs ==
    {[phone |-> ph, business |-> b] :
        ph \in {<<"0", "5">>, Prefix972 \o <<"5">>, <<"0", "1">>, << >>},
        b \in Businesses}

(* Slot searches: a client of b1 asks for either worker *)
SlotInputs ==
    {[caller |-> "u1", worker |-> w, duration |-> d] :
        w \in {"w1", "w2"}, d \in 1..MaxSlotDur}

SlotCreateInputs ==
    {r \in CreateInputs : r.caller = "u1" /\ r.client = "u1" /\ r.service.duration >= 1}

(* A request in flight: its position in the handler, its payload, the      *)
(* response once it has one, the _id it inserted and the requests that     *)
(* were between their overlap query and their write at the same time with  *)
(* the same business, worker and start.                                    *)
Procs == 1..MaxProcs

(* The days asked of the by-day queries: the day before the model's day,   *)
(* the model's day and the day after                                       *)
DayInputs == 0..2

BlocksByDayInputs ==
    {[caller |-> c, day |-> d, worker |-> w] :
        c \in {"u1", "u4"}, d \in DayInputs, w \in {"none", "w1"}}

BlocksListInputs ==
    {[caller |-> "u1", includeInactive |-> inc, from |-> f, to |-> t,
      worker |-> w, resource |-> res] :
        inc \in BOOLEAN, f \in {NoDay, 2}, t \in {NoDay, 0},
        w \in {"none", "w1"}, res \in {"none", "null", "w1"}}

(* Records around a midnight: appointments and blocks that start one       *)
(* minute before the midnight that opens day 2, or at it, and last one or  *)
(* two minutes                                                             *)
MidnightInputs == {dayStartOf(2) - minutesToMs(1), dayStartOf(2)}

ByDayCreateInputs ==
    {[caller |-> "u1", client |-> "u1", worker |-> w, start |-> s, service |-> Service(d)] :
        w \in {"w1", "w2"}, s \in MidnightInputs, d \in 1..MaxDurMin}

ByDayBlockInputs ==
    {[caller |-> "w2", resource |-> res, start |-> s, end |-> s + minutesToMs(d)] :
        res \in {"null", "w1"}, s \in MidnightInputs, d \in 1..MaxDurMin}

ByDayQueryInputs ==
    {[caller |-> c, day |-> d, worker |-> w] :
        c \in {"u1", "u4"}, d \in 1..2, w \in {"none", "w1", "w2"}}

(* Status changes and cancels that interleave: bookings of u1 with worker  *)
(* w1 that overlap or share a start, every status change of the admin of   *)
(* b1, one by a caller without the admin role, and the cancels of u1.      *)
RaceCreateInputs ==
    {[caller |-> "u1", client |-> "u1", worker |-> "w1", start |-> s, service |-> Service(d)] :
        s \in StartInputs, d \in 1..MaxDurMin}

RaceStatusInputs ==
    {[caller |-> "w2", id |-> i, status |-> st] : i \in ApptIds, st \in Statuses}
    \cup {[caller |-> "u1", id |-> 1, status |-> "completed"]}

RaceCancelInputs == {[caller |-> "u1", id |-> i] : i \in ApptIds}

(* Workers: the admins of both businesses and a caller without the admin   *)
(* role add, to either business, the phone of a client of b1 in local and  *)
(* in international form, of the admin of b2, of a user who signs up, of   *)
(* nobody, and no phone.                                                   *)
AddWorkerInputs ==
    {[caller |-> c, business |-> b, phone |-> ph] :
        c \in {"w2", "u4", "w1"}, b \in Businesses,
        ph \in {<<"0", "1">>, Prefix972 \o <<"1">>, Prefix972 \o <<"4">>, <<"0", "5">>,
                <<"0", "9">>, << >>}}

RemoveWorkerInputs ==
    {[caller |-> c, business |-> "b1", id |-> u] : c \in {"w2", "u4"}, u \in {"u1", "u4"}}

(* The admin of b1 names a client of b1, or itself, owner of b1 *)
SetOwnerInputs ==
    {[caller |-> c, business |-> "b1", id |-> u] : c \in {"w2", "w1"}, u \in {"u1", "w2"}}

(* A user signs up to the other business *)
WorkerSignupInputs == {[phone |-> <<"0", "5">>, business |-> b] : b \in Businesses}

NoPayload ==
    [caller |-> "none", client |-> "none", worker |-> "none", start |-> 0,
     service |-> Service(0)]

IdleReq == [pc |-> "idle", r |-> NoPayload, code |-> "none", id |-> 0, rivals |-> {}]

(* A status change, a cancel or a signup between its reads and its write:  *)
(* ops[p] holds what the handler keeps in its local variables.             *)
IdleOp ==
    [pc |-> "idle", op |-> "none", caller |-> "none", id |-> 0, status |-> "none",
     phone |-> << >>, business |-> "none"]

SameKey(r1, r2) ==
    /\ tokenData(r1.caller).business = tokenData(r2.caller).business
    /\ r1.worker = r2.worker
    /\ r1.start = r2.start

TypeOK ==
    /\ Len(appts) <= MaxApptsCap
    /\ Len(blocks) <= MaxBlocks
    /\ \A i \in DOMAIN appts : appts[i].status \in Statuses
    /\ \A p \in Procs : reqs[p].pc \in {"idle", "write", "done"}

Init ==
    /\ users = InitUsers
    /\ appts = << >>
    /\ blocks = << >>
    /\ now = 0
    /\ last = NoReq
    /\ reqs = [p \in Procs |-> IdleReq]
    /\ services = InitServices
    /\ slots = IdleSlots
    /\ biz = InitBiz
    /\ ops = [p \in Procs |-> IdleOp]

(* POST /appointments, run to completion *)
Create(r) ==
    LET business == tokenData(r.caller).business
        pre == CreateChecks(appts, business, r, now)
        w == CreateWrite(appts, business, r)
        code == IF pre = "PASS" THEN w.code ELSE pre
    IN
    /\ appts' = IF pre = "PASS" THEN w.store ELSE appts
    /\ last' = [NoReq EXCEPT !.op = "create", !.caller = r.caller, !.client = r.client,
                             !.worker = r.worker, !.start = r.start,
                             !.duration = r.service.duration, !.code = code,
                             !.name = r.service.name, !.price = r.service.price,
                             !.id = IF code = "CREATED" THEN Len(appts) + 1 ELSE 0]
    /\ UNCHANGED <<users, blocks, now, reqs, services, slots, biz, ops>>

(* PATCH /appointments/:id/status, run to completion *)
SetStatus(r) ==
    LET tok == tokenData(r.caller)
        pre == StatusChecks(appts, tok, r.id, r.status)
        w == StatusWrite(appts, tok, r.id, r.status)
    IN
    /\ appts' = IF pre = "PASS" THEN w.store ELSE appts
    /\ last' = [NoReq EXCEPT !.op = "status", !.caller = r.caller, !.id = r.id,
                             !.status = r.status,
                             !.code = IF pre = "PASS" THEN w.code ELSE pre]
    /\ UNCHANGED <<users, blocks, now, reqs, services, slots, biz, ops>>

(* PATCH /appointments/:id/cancel, run to completion *)
Cancel(r) ==
    LET tok == tokenData(r.caller)
        pre == CancelChecks(appts, tok, r.id, now)
        w == CancelWrite(appts, r.id)
    IN
    /\ appts' = IF pre = "PASS" THEN w.store ELSE appts
    /\ last' = [NoReq EXCEPT !.op = "cancel", !.caller = r.caller, !.id = r.id,
                             !.code = IF pre = "PASS" THEN w.code ELSE pre]
    /\ UNCHANGED <<users, blocks, now, reqs, services, slots, biz, ops>>

(* The clock advances by a minute between requests *)
Tick ==
    /\ now < minutesToMs(MaxTicks)
    /\ now' = now + minutesToMs(1)
    /\ last' = NoReq
    /\ UNCHANGED <<users, appts, blocks, reqs, services, slots, biz, ops>>

(* POST /blocks *)
CreateBlock(r) ==
    LET w == CreateBlockResult(blocks, tokenData(r.caller), r) IN
    /\ blocks' = w.store
    /\ Len(blocks') <= MaxBlocks
    /\ last' = [NoReq EXCEPT !.op = "block_create", !.caller = r.caller,
                             !.worker = r.resource, !.start = r.start, !.end = r.end,
                             !.code = w.code,
                             !.id = IF w.code = "CREATED" THEN Len(blocks) + 1 ELSE 0]
    /\ UNCHANGED <<users, appts, now, reqs, services, slots, biz, ops>>

(* DELETE /blocks/:id *)
DeleteBlock(r) ==
    LET w == DeleteBlockResult(blocks, tokenData(r.caller), r.id) IN
    /\ blocks' = w.store
    /\ last' = [NoReq EXCEPT !.op = "block_delete", !.caller = r.caller, !.id = r.id,
                             !.code = w.code]
    /\ UNCHANGED <<users, appts, now, reqs, services, slots, biz, ops>>

(* POST /appointments up to its overlap query.  The handler awaits the two *)
(* membership lookups and then the overlap query; no action of the         *)
(* interleaved specification writes users, so the three reads are one step.*)
CreateRead(p, r) ==
    LET business == tokenData(r.caller).business
        pre == CreateChecks(appts, business, r, now)
        others == {q \in Procs \ {p} : reqs[q].pc = "write" /\ SameKey(reqs[q].r, r)}
    IN
    /\ reqs[p].pc = "idle"
    /\ reqs' = [q \in Procs |->
                  IF q = p
                  THEN IF pre = "PASS"
                       THEN [reqs[p] EXCEPT !.pc = "write", !.r = r, !.rivals = others]
                       ELSE [reqs[p] EXCEPT !.pc = "done", !.r = r, !.code = pre]
                  ELSE IF pre = "PASS" /\ q \in others
                       THEN [reqs[q] EXCEPT !.rivals = @ \cup {p}]
                       ELSE reqs[q]]
    /\ UNCHANGED <<users, appts, blocks, now, last, services, slots, biz, ops>>

(* POST /appointments from AppointmentModel.create to the response *)
CreateCommit(p) ==
    LET r == reqs[p].r
        w == CreateWrite(appts, tokenData(r.caller).business, r)
    IN
    /\ reqs[p].pc = "write"
    /\ appts' = w.store
    /\ reqs' = [reqs EXCEPT ![p].pc = "done", ![p].code = w.code,
                            ![p].id = IF w.code = "CREATED" THEN Len(appts) + 1 ELSE 0]
    /\ UNCHANGED <<users, blocks, now, last, services, slots, biz, ops>>

(* PATCH /appointments/:id/status up to its last read: the lookup of the   *)
(* appointment and, for the target confirmed, the overlap query.  A check  *)
(* that fails answers at once; otherwise the handler goes on to its write. *)
StatusRead(p, r) ==
    LET pre == StatusChecks(appts, tokenData(r.caller), r.id, r.status) IN
    /\ ops[p].pc = "idle"
    /\ IF pre = "PASS"
       THEN /\ ops' = [ops EXCEPT ![p] = [IdleOp EXCEPT !.pc = "write", !.op = "status",
                                                       !.caller = r.caller, !.id = r.id,
                                                       !.status = r.status]]
            /\ last' = NoReq
       ELSE /\ last' = [NoReq EXCEPT !.op = "status", !.caller = r.caller, !.id = r.id,
                                     !.status = r.status, !.code = pre]
            /\ UNCHANGED ops
    /\ UNCHANGED <<users, appts, blocks, now, reqs, services, slots, biz>>

(* The findOneAndUpdate of the status change and its answer *)
StatusCommit(p) ==
    LET o == ops[p]
        w == StatusWrite(appts, tokenData(o.caller), o.id, o.status)
    IN
    /\ o.pc = "write"
    /\ o.op = "status"
    /\ appts' = w.store
    /\ last' = [NoReq EXCEPT !.op = "status", !.caller = o.caller, !.id = o.id,
                             !.status = o.status, !.code = w.code]
    /\ ops' = [ops EXCEPT ![p] = IdleOp]
    /\ UNCHANGED <<users, blocks, now, reqs, services, slots, biz>>

(* PATCH /appointments/:id/cancel up to its checks: findOne by id, client  *)
(* and business, the status check and the 24-hour rule, all on the         *)
(* document as read.                                                       *)
CancelRead(p, r) ==
    LET pre == CancelChecks(appts, tokenData(r.caller), r.id, now) IN
    /\ ops[p].pc = "idle"
    /\ IF pre = "PASS"
       THEN /\ ops' = [ops EXCEPT ![p] = [IdleOp EXCEPT !.pc = "write", !.op = "cancel",
                                                       !.caller = r.caller, !.id = r.id]]
            /\ last' = NoReq
       ELSE /\ last' = [NoReq EXCEPT !.op = "cancel", !.caller = r.caller, !.id = r.id,
                                     !.code = pre]
            /\ UNCHANGED ops
    /\ UNCHANGED <<users, appts, blocks, now, reqs, services, slots, biz>>

(* appt.status = "canceled"; await appt.save(): the save writes the status *)
(* of the document read earlier, whatever the store holds by now.          *)
CancelCommit(p) ==
    LET o == ops[p]
        w == CancelWrite(appts, o.id)
    IN
    /\ o.pc = "write"
    /\ o.op = "cancel"
    /\ appts' = w.store
    /\ last' = [NoReq EXCEPT !.op = "cancel", !.caller = o.caller, !.id = o.id,
                             !.code = w.code]
    /\ ops' = [ops EXCEPT ![p] = IdleOp]
    /\ UNCHANGED <<users, blocks, now, reqs, services, slots, biz>>

(* PATCH /blocks/:id *)
UpdateBlock(r) ==
    LET w == UpdateBlockResult(blocks, tokenData(r.caller), r.id, r) IN
    /\ blocks' = w.store
    /\ last' = [NoReq EXCEPT !.op = "block_update", !.caller = r.caller, !.id = r.id,
                             !.has = r.has, !.start = r.start, !.end = r.end,
                             !.code = w.code]
    /\ UNCHANGED <<users, appts, now, reqs, services, slots, biz, ops>>

(* GET /appointments/by-day *)
GetAppointmentsByDay(r) ==
    LET w == AppointmentsByDay(appts, tokenData(r.caller).business, r.day, r.worker) IN
    /\ last' = [NoReq EXCEPT !.op = "appts_by_day", !.caller = r.caller,
                             !.start = dayStartOf(r.day), !.worker = r.worker,
                             !.code = w.code, !.result = w.result]
    /\ UNCHANGED <<users, appts, blocks, now, reqs, services, slots, biz, ops>>

(* GET /blocks/by-day *)
GetBlocksByDay(r) ==
    /\ last' = [NoReq EXCEPT !.op = "blocks_by_day", !.caller = r.caller,
                             !.start = dayStartOf(r.day), !.worker = r.worker,
                             !.code = "OK",
                             !.result = BlocksByDay(blocks, tokenData(r.caller).business,
                                                    r.day, r.worker)]
    /\ UNCHANGED <<users, appts, blocks, now, reqs, services, slots, biz, ops>>

(* GET /blocks/list *)
GetBlocksList(r) ==
    /\ last' = [NoReq EXCEPT !.op = "blocks_list", !.caller = r.caller,
                             !.worker = r.worker,
                             !.has = IF r.includeInactive THEN {"includeInactive"} ELSE {},
                             !.code = "OK",
                             !.result = BlocksList(blocks, tokenData(r.caller).business, r)]
    /\ UNCHANGED <<users, appts, blocks, now, reqs, services, slots, biz, ops>>

(* PATCH /businesses/:id/services/:serviceId *)
UpdateService(r) ==
    LET w == UpdateServiceResult(services, tokenData(r.caller), r.business, r.id, r) IN
    /\ services' = w.store
    /\ last' = [NoReq EXCEPT !.op = "service_update", !.caller = r.caller, !.id = r.id,
                             !.business = r.business, !.has = r.has, !.name = r.name,
                             !.duration = r.duration, !.price = r.price,
                             !.code = w.code]
    /\ UNCHANGED <<users, appts, blocks, now, reqs, slots, biz, ops>>

(* DELETE /businesses/:id/services/:serviceId *)
DeleteService(r) ==
    LET w == DeleteServiceResult(services, tokenData(r.caller), r.business, r.id) IN
    /\ services' = w.store
    /\ last' = [NoReq EXCEPT !.op = "service_delete", !.caller = r.caller, !.id = r.id,
                             !.business = r.business, !.code = w.code]
    /\ UNCHANGED <<users, appts, blocks, now, reqs, slots, biz, ops>>

(* POST /signup of routes/users.js *)
Signup(r, env) ==
    LET w == SignupResult(users, r, env) IN
    /\ users' = w.store
    /\ Cardinality(DOMAIN users') <= Cardinality(UserIds) + MaxSignups
    /\ last' = [NoReq EXCEPT !.op = "signup", !.phone = r.phone, !.business = r.business,
                             !.status = env, !.notify = w.notify, !.code = w.code,
                             !.client = IF w.code = "OK" THEN NextUserId(users) ELSE "none"]
    /\ UNCHANGED <<appts, blocks, now, reqs, services, slots, biz, ops>>

(* POST /signup of the older users routes *)
SignupOld(r, env) ==
    LET w == SignupOldResult(users, r, env) IN
    /\ users' = w.store
    /\ Cardinality(DOMAIN users') <= Cardinality(UserIds) + MaxSignups
    /\ last' = [NoReq EXCEPT !.op = "signup_old", !.phone = r.phone,
                             !.business = r.business,
                             !.status = env, !.notify = w.notify, !.code = w.code,
                             !.client = IF w.code = "OK" THEN NextUserId(users) ELSE "none"]
    /\ UNCHANGED <<appts, blocks, now, reqs, services, slots, biz, ops>>

(* POST /signup up to its lookup: the phone of the verified token is       *)
(* normalised and a user with that phone is looked up in the business.  A  *)
(* missing phone or a user found answers at once; otherwise the handler    *)
(* goes on to UserModel.create.                                            *)
SignupRead(p, r) ==
    LET phone == toE164IL(r.phone) IN
    /\ ops[p].pc = "idle"
    /\ IF r.phone # << >> /\ FindUserByPhone(users, phone, r.business) = {}
       THEN /\ ops' = [ops EXCEPT ![p] = [IdleOp EXCEPT !.pc = "write", !.op = "signup",
                                                       !.phone = phone,
                                                       !.business = r.business]]
            /\ last' = NoReq
       ELSE /\ last' = [NoReq EXCEPT !.op = "signup", !.phone = r.phone,
                                     !.business = r.business,
                                     !.code = IF r.phone = << >> THEN "INVALID_PHONE"
                                              ELSE "USER_EXISTS"]
            /\ UNCHANGED ops
    /\ UNCHANGED <<users, appts, blocks, now, reqs, services, slots, biz>>

(* UserModel.create of the signup, the notification and the answer *)
SignupCommit(p, env) ==
    LET o == ops[p]
        w == SignupCreate(users, o.phone, o.business, env)
    IN
    /\ o.pc = "write"
    /\ o.op = "signup"
    /\ users' = w.store
    /\ last' = [NoReq EXCEPT !.op = "signup", !.phone = o.phone, !.business = o.business,
                             !.status = env, !.notify = w.notify, !.code = w.code,
                             !.client = IF w.code = "OK" THEN NextUserId(users) ELSE "none"]
    /\ ops' = [ops EXCEPT ![p] = IdleOp]
    /\ UNCHANGED <<appts, blocks, now, reqs, services, slots, biz>>

(* POST /businesses/:id/workers *)
AddWorker(r) ==
    LET matches == FindUsersByPhoneOnly(users, normalizePhone(r.phone)) IN
    \E found \in (IF matches = {} THEN {"none"} ELSE matches) :
        LET w == AddWorkerResult(users, biz, tokenData(r.caller), r.business, r.phone, found) IN
        /\ users' = w.users
        /\ biz' = w.biz
        /\ \A b \in Businesses : Len(biz'[b].workers) <= MaxWorkers
        /\ last' = [NoReq EXCEPT !.op = "add_worker", !.caller = r.caller,
                                 !.business = r.business, !.phone = r.phone,
                                 !.client = found, !.code = w.code]
        /\ UNCHANGED <<appts, blocks, now, reqs, services, slots, ops>>

(* DELETE /businesses/:id/workers/:workerId *)
RemoveWorker(r) ==
    LET w == RemoveWorkerResult(biz, tokenData(r.caller), r.business, r.id) IN
    /\ biz' = w.biz
    /\ last' = [NoReq EXCEPT !.op = "remove_worker", !.caller = r.caller,
                             !.business = r.business, !.client = r.id, !.code = w.code]
    /\ UNCHANGED <<users, appts, blocks, now, reqs, services, slots, ops>>

(* PATCH /businesses/:id/set-owner *)
SetOwner(r) ==
    LET w == SetOwnerResult(biz, tokenData(r.caller), r.business, r.id) IN
    /\ biz' = w.biz
    /\ last' = [NoReq EXCEPT !.op = "set_owner", !.caller = r.caller,
                             !.business = r.business, !.client = r.id, !.code = w.code]
    /\ UNCHANGED <<users, appts, blocks, now, reqs, services, slots, ops>>

(* The slot search starts: it reads the clock and places the cursor *)
FindSlots(r) ==
    /\ slots.pc = "idle"
    /\ slots' = StartSearch(tokenData(r.caller).business, r.worker, r.duration, now)
    /\ last' = [NoReq EXCEPT !.op = "slots", !.caller = r.caller, !.worker = r.worker,
                             !.duration = r.duration]
    /\ UNCHANGED <<users, appts, blocks, now, reqs, services, biz, ops>>

(* The slot search scans its next day and, when it is done, answers *)
ScanDay ==
    /\ slots.pc = "run"
    /\ slots' = ScanDayResult(slots, appts)
    /\ last' = IF slots'.pc = "done" THEN [last EXCEPT !.code = "OK"] ELSE last
    /\ UNCHANGED <<users, appts, blocks, now, reqs, services, biz, ops>>

(* The response of the slot search has been sent *)
SlotsReturn ==
    /\ slots.pc = "done"
    /\ slots' = IdleSlots
    /\ last' = NoReq
    /\ UNCHANGED <<users, appts, blocks, now, reqs, services, biz, ops>>

(* Requests run one after the other *)
Next ==
    \/ \E r \in CreateInputs : Create(r) /\ Len(appts') <= MaxAppts
    \/ \E r \in StatusInputs : SetStatus(r)
    \/ \E r \in CancelInputs : Cancel(r)
    \/ Tick

Spec == Init /\ [][Next]_vars

(* Create requests whose reads and writes interleave *)
NextConc ==
    \/ \E p \in Procs, r \in CreateInputs : CreateRead(p, r)
    \/ \E p \in Procs : CreateCommit(p)

SpecConc == Init /\ [][NextConc]_vars

(* Bookings while blocks are created and soft-deleted *)
NextBlocks ==
    \/ \E r \in BlockInputs : CreateBlock(r)
    \/ \E r \in DeleteBlockInputs : DeleteBlock(r)
    \/ \E r \in CreateInputs : Create(r) /\ Len(appts') <= MaxAppts

SpecBlocks == Init /\ [][NextBlocks]_vars

(* One client's bookings and cancellations *)
NextCap ==
    \/ \E r \in CapInputs : Create(r) /\ Len(appts') <= MaxApptsCap
    \/ \E r \in CapCancelInputs : Cancel(r)

SpecCap == Init /\ [][NextCap]_vars

(* Slot searches between bookings and cancellations; a search runs to its  *)
(* answer before the next request                                          *)
NextSlots ==
    \/ \E r \in SlotCreateInputs :
           slots.pc = "idle" /\ Create(r) /\ Len(appts') <= MaxAppts
    \/ \E r \in CancelInputs : slots.pc = "idle" /\ Cancel(r)
    \/ slots.pc = "idle" /\ Tick
    \/ \E r \in SlotInputs : FindSlots(r)
    \/ ScanDay
    \/ SlotsReturn

SpecSlots == Init /\ [][NextSlots]_vars

(* The same with the search scheduled: a search that has started scans its *)
(* next day                                                                *)
SpecSlotsFair == Init /\ [][NextSlots]_vars /\ WF_vars(ScanDay)

(* Bookings of the services the business offers while its admin updates    *)
(* and deletes them                                                        *)
NextServices ==
    \/ \E r \in BookInputs : Create(r) /\ Len(appts') <= MaxAppts
    \/ \E r \in UpdateServiceInputs : UpdateService(r)
    \/ \E r \in DeleteServiceInputs : DeleteService(r)

SpecServices == Init /\ [][NextServices]_vars

(* Signups with every behaviour of the notification *)
NextSignup ==
    \/ \E r \in SignupInputs, env \in NotifyEnvs : Signup(r, env)
    \/ \E r \in SignupInputs, env \in NotifyEnvs : SignupOld(r, env)

SpecSignup == Init /\ [][NextSignup]_vars

(* Signups whose lookups and creates interleave *)
NextSignupConc ==
    \/ \E p \in Procs, r \in SignupInputs :
          /\ SignupRead(p, r)
          /\ Cardinality(DOMAIN users) + Cardinality({q \in Procs : ops[q].pc = "write"})
                < Cardinality(UserIds) + MaxSignups
    \/ \E p \in Procs, env \in NotifyEnvs : SignupCommit(p, env)

SpecSignupConc == Init /\ [][NextSignupConc]_vars

(* Workers added and removed, owners set, users signing up *)
NextWorkers ==
    \/ \E r \in AddWorkerInputs : AddWorker(r)
    \/ \E r \in RemoveWorkerInputs : RemoveWorker(r)
    \/ \E r \in SetOwnerInputs : SetOwner(r)
    \/ \E r \in WorkerSignupInputs : Signup(r, "delivered")

SpecWorkers == Init /\ [][NextWorkers]_vars

(* Blocks created, updated and soft-deleted *)
NextBlockOps ==
    \/ \E r \in BlockInputs : CreateBlock(r)
    \/ \E r \in UpdateBlockInputs : UpdateBlock(r)
    \/ \E r \in DeleteBlockInputs : DeleteBlock(r)
    \/ \E r \in BlocksByDayInputs : GetBlocksByDay(r)
    \/ \E r \in BlocksListInputs : GetBlocksList(r)

SpecBlockOps == Init /\ [][NextBlockOps]_vars

(* The by-day queries over appointments and blocks that cross a midnight *)
NextByDay ==
    \/ \E r \in ByDayCreateInputs : Create(r) /\ Len(appts') <= MaxAppts
    \/ \E r \in ByDayBlockInputs : CreateBlock(r)
    \/ \E r \in DeleteBlockInputs : DeleteBlock(r)
    \/ \E r \in ByDayQueryInputs : GetAppointmentsByDay(r)
    \/ \E r \in ByDayQueryInputs : GetBlocksByDay(r)

SpecByDay == Init /\ [][NextByDay]_vars

(* Bookings, status changes and cancels whose reads and writes interleave *)
NextRace ==
    \/ \E r \in RaceCreateInputs : Create(r) /\ Len(appts') <= MaxAppts
    \/ \E p \in Procs, r \in RaceStatusInputs : StatusRead(p, r)
    \/ \E p \in Procs : StatusCommit(p)
    \/ \E p \in Procs, r \in RaceCancelInputs : CancelRead(p, r)
    \/ \E p \in Procs : CancelCommit(p)

SpecRace == Init /\ [][NextRace]_vars

(* Two businesses: each one's callers aim at their own records and at the  *)
(* other's                                                                 *)
NextTenants ==
    \/ \E r \in TenantCreateInputs : Create(r) /\ Len(appts') <= MaxAppts
    \/ \E r \in TenantStatusInputs : SetStatus(r)
    \/ \E r \in TenantCancelInputs : Cancel(r)
    \/ \E r \in TenantBlockInputs : CreateBlock(r)
    \/ \E r \in TenantUpdateBlockInputs : UpdateBlock(r)
    \/ \E r \in DeleteBlockInputs : DeleteBlock(r)

SpecTenants == Init /\ [][NextTenants]_vars

----------------------------------------------------------------------------
(* Properties *)

(* Half-open intervals [s1, e1) and [s2, e2) share an instant *)
Intersects(s1, e1, s2, e2) == s1 < e2 /\ s2 < e1

IntervalEnd(a) == a.start + a.service.duration * 60000

BusinessOf(u) == users[u].business

SameSchedule(a, b) == a.business = b.business /\ a.worker = b.worker

(* The confirmed appointments of store, other than exclude, of the given   *)
(* business and worker whose interval intersects [s, e)                    *)
Conflicts(store, business, worker, s, e, exclude) ==
    {i \in DOMAIN store :
        /\ i # exclude
        /\ store[i].status = "confirmed"
        /\ store[i].business = business
        /\ store[i].worker = worker
        /\ Intersects(s, e, store[i].start, IntervalEnd(store[i]))}

(* The request recorded in l is well-formed and names a client and a       *)
(* worker of the caller's business                                         *)
WellFormedInBusiness(l, nowv) ==
    /\ l.duration >= 1 /\ l.duration <= 480
    /\ l.start > nowv
    /\ BusinessOf(l.client) = BusinessOf(l.caller)
    /\ BusinessOf(l.worker) = BusinessOf(l.caller)

(* C1: any two distinct confirmed appointments of the same business and    *)
(* worker occupy disjoint half-open intervals [start, start + duration),   *)
(* whatever sequence of create, status-change and cancel requests ran.     *)
C1_NoDoubleBooking ==
    \A i, j \in DOMAIN appts :
        (/\ i # j
         /\ appts[i].status = "confirmed"
         /\ appts[j].status = "confirmed"
         /\ SameSchedule(appts[i], appts[j]))
        => ~Intersects(appts[i].start, IntervalEnd(appts[i]),
                       appts[j].start, IntervalEnd(appts[j]))

(* A canceled appointment was just re-confirmed next to another confirmed  *)
(* appointment of the same worker.                                         *)
C1_Witness ==
    /\ last.op = "status" /\ last.status = "confirmed" /\ last.code = "OK"
    /\ \E j \in DOMAIN appts :
        /\ j # last.id
        /\ appts[j].status = "confirmed"
        /\ appts[last.id].status = "confirmed"
        /\ SameSchedule(appts[j], appts[last.id])

(* C4: a create request that passes validation and the membership checks   *)
(* answers SLOT_TAKEN exactly when a confirmed appointment of the same     *)
(* business and worker intersects the requested interval, and a request    *)
(* answered SLOT_TAKEN leaves the appointments as they were.               *)
C4_SlotTakenIffOverlap ==
    [][(last'.op = "create" /\ WellFormedInBusiness(last', now))
       => LET hit == Conflicts(appts, BusinessOf(last'.caller), last'.worker,
                               last'.start, last'.start + last'.duration * 60000, 0)
          IN /\ (last'.code = "SLOT_TAKEN") <=> (hit # {})
             /\ (last'.code = "SLOT_TAKEN") => (appts' = appts)]_vars

(* A request was refused for an appointment that starts before it and ends *)
(* one minute into it, inside the requested interval.                      *)
C4_Witness ==
    /\ last.op = "create" /\ last.code = "SLOT_TAKEN"
    /\ \E i \in DOMAIN appts :
        /\ appts[i].status = "confirmed"
        /\ appts[i].worker = last.worker
        /\ appts[i].start < last.start
        /\ IntervalEnd(appts[i]) = last.start + 60000
        /\ IntervalEnd(appts[i]) < last.start + last.duration * 60000

(* C5: a well-formed create request whose interval touches a confirmed     *)
(* appointment of the same worker at a boundary and intersects none is     *)
(* accepted and stored.                                                    *)
C5_AbuttingSucceeds ==
    [][(/\ last'.op = "create"
        /\ WellFormedInBusiness(last', now)
        /\ LET e == last'.start + last'.duration * 60000 IN
           /\ \E i \in DOMAIN appts :
                /\ appts[i].status = "confirmed"
                /\ appts[i].business = BusinessOf(last'.caller)
                /\ appts[i].worker = last'.worker
                /\ (IntervalEnd(appts[i]) = last'.start \/ appts[i].start = e)
           /\ Conflicts(appts, BusinessOf(last'.caller), last'.worker,
                        last'.start, e, 0) = {})
       => /\ last'.code = "CREATED"
          /\ Len(appts') = Len(appts) + 1
          /\ appts'[Len(appts')].status = "confirmed"
          /\ appts'[Len(appts')].start = last'.start]_vars

(* An appointment was booked that starts at the instant a confirmed        *)
(* appointment of the same worker ends.                                    *)
C5_Witness ==
    /\ last.op = "create" /\ last.code = "CREATED"
    /\ \E i \in DOMAIN appts :
        /\ i # last.id
        /\ appts[i].status = "confirmed"
        /\ SameSchedule(appts[i], appts[last.id])
        /\ IntervalEnd(appts[i]) = appts[last.id].start

(* The appointment a belongs to the caller of a cancel request: same       *)
(* client, same business                                                   *)
OwnedBy(a, caller) == a.client = caller /\ a.business = BusinessOf(caller)

(* C8: a client's cancel of their own confirmed appointment sets it        *)
(* canceled when the start is more than 24 hours after now; when the start *)
(* is 24 hours or less after now, exactly 24 hours included, it answers    *)
(* CANNOT_CANCEL_WITHIN_24H and the appointment stays confirmed.           *)
C8_CancelCutoff ==
    [][\A id \in DOMAIN appts :
        (/\ last'.op = "cancel" /\ last'.id = id
         /\ OwnedBy(appts[id], last'.caller)
         /\ appts[id].status = "confirmed")
        => IF appts[id].start - now > 24 * 60 * 60 * 1000
           THEN last'.code = "OK" /\ appts'[id].status = "canceled"
           ELSE /\ last'.code = "CANNOT_CANCEL_WITHIN_24H"
                /\ appts'[id].status = "confirmed"]_vars

(* C9: a client's cancel of their own appointment whose status is          *)
(* canceled, completed or no_show answers ONLY_CONFIRMED_CAN_BE_CANCELED   *)
(* and changes nothing, however far ahead the start is.                    *)
C9_OnlyConfirmedCanBeCanceled ==
    [][\A id \in DOMAIN appts :
        (/\ last'.op = "cancel" /\ last'.id = id
         /\ OwnedBy(appts[id], last'.caller)
         /\ appts[id].status \in {"canceled", "completed", "no_show"})
        => /\ last'.code = "ONLY_CONFIRMED_CAN_BE_CANCELED"
           /\ appts' = appts]_vars

(* The client tried to cancel their no_show appointment more than 24 hours *)
(* before its start and was refused.                                       *)
C9_Witness ==
    /\ last.op = "cancel" /\ last.code = "ONLY_CONFIRMED_CAN_BE_CANCELED"
    /\ last.id \in DOMAIN appts
    /\ appts[last.id].status = "no_show"
    /\ OwnedBy(appts[last.id], last.caller)
    /\ appts[last.id].start - now > 24 * 60 * 60 * 1000

(* C10: an admin's status change to confirmed, on an appointment of the    *)
(* admin's business that is not confirmed, answers SLOT_TAKEN and changes  *)
(* nothing when another confirmed appointment of the same business and     *)
(* worker intersects it, and otherwise makes it confirmed; SLOT_TAKEN is   *)
(* never answered unless another record conflicts.                         *)
C10_ReconfirmChecksOverlap ==
    [][\A id \in DOMAIN appts :
        (/\ last'.op = "status" /\ last'.status = "confirmed" /\ last'.id = id
         /\ users[last'.caller].role = "admin"
         /\ appts[id].business = BusinessOf(last'.caller))
        => LET other == Conflicts(appts, appts[id].business, appts[id].worker,
                                  appts[id].start, IntervalEnd(appts[id]), id)
           IN /\ (appts[id].status # "confirmed" /\ other # {})
                    => (last'.code = "SLOT_TAKEN" /\ appts' = appts)
              /\ (appts[id].status # "confirmed" /\ other = {})
                    => /\ last'.code = "OK"
                       /\ appts' = [appts EXCEPT ![id].status = "confirmed"]
              /\ (last'.code = "SLOT_TAKEN") => (other # {})]_vars

(* The admin tried to re-confirm a canceled appointment whose slot a newer *)
(* confirmed appointment of the same worker now occupies, and was refused. *)
C10_Witness ==
    /\ last.op = "status" /\ last.status = "confirmed" /\ last.code = "SLOT_TAKEN"
    /\ last.id \in DOMAIN appts
    /\ appts[last.id].status = "canceled"
    /\ \E j \in DOMAIN appts :
        /\ j > last.id
        /\ appts[j].status = "confirmed"
        /\ SameSchedule(appts[j], appts[last.id])
        /\ Intersects(appts[j].start, IntervalEnd(appts[j]),
                      appts[last.id].start, IntervalEnd(appts[last.id]))

ReqEnd(r) == r.start + r.service.duration * 60000

(* Two create payloads ask for intersecting intervals of the same business *)
(* and worker                                                              *)
ConflictingRequests(r1, r2) ==
    /\ BusinessOf(r1.caller) = BusinessOf(r2.caller)
    /\ r1.worker = r2.worker
    /\ Intersects(r1.start, ReqEnd(r1), r2.start, ReqEnd(r2))

(* C2: of two create requests for the same business and worker with        *)
(* intersecting intervals, with equal or different starts, at most one     *)
(* ends with a stored confirmed appointment, however their overlap queries *)
(* and writes interleave.                                                  *)
C2_AtMostOneConflictingBooking ==
    \A p, q \in Procs :
        (/\ p # q
         /\ reqs[p].pc = "done" /\ reqs[q].pc = "done"
         /\ ConflictingRequests(reqs[p].r, reqs[q].r))
        => ~(reqs[p].code = "CREATED" /\ reqs[q].code = "CREATED")

(* C3: when requests with the same business, worker and start have all     *)
(* passed the overlap query before any of them wrote, one write is stored  *)
(* and every other one answers SLOT_TAKEN and stores nothing.              *)
C3_UniqueIndexArbitrates ==
    \A p \in Procs : \A q \in reqs[p].rivals :
        (reqs[p].pc = "done" /\ reqs[q].pc = "done")
        => /\ reqs[p].code \in {"CREATED", "SLOT_TAKEN"}
           /\ ~(reqs[p].code = "CREATED" /\ reqs[q].code = "CREATED")
           /\ (reqs[p].code = "SLOT_TAKEN")
                => /\ reqs[p].id = 0
                   /\ \E w \in Procs :
                        /\ reqs[w].code = "CREATED"
                        /\ reqs[w].r.worker = reqs[p].r.worker
                        /\ reqs[w].r.start = reqs[p].r.start
           /\ Cardinality({i \in DOMAIN appts :
                            /\ appts[i].business = BusinessOf(reqs[p].r.caller)
                            /\ appts[i].worker = reqs[p].r.worker
                            /\ appts[i].start = reqs[p].r.start}) = 1

(* Two requests for the same start were both past the overlap query before *)
(* either wrote; one was stored and the other answered SLOT_TAKEN.         *)
C3_Witness ==
    \E p \in Procs : \E q \in reqs[p].rivals :
        /\ reqs[p].pc = "done" /\ reqs[q].pc = "done"
        /\ reqs[p].code = "CREATED" /\ reqs[p].id \in DOMAIN appts
        /\ reqs[q].code = "SLOT_TAKEN" /\ reqs[q].id = 0
        /\ Len(appts) = 1

(* The active blocks of the business of the recorded create request that   *)
(* intersect its interval                                                  *)
BlocksHit(l) ==
    {i \in DOMAIN blocks :
        /\ blocks[i].active
        /\ blocks[i].business = BusinessOf(l.caller)
        /\ Intersects(l.start, l.start + l.duration * 60000,
                      blocks[i].start, blocks[i].end)}

(* C6: a create request whose interval intersects an active block of the   *)
(* business with resource null, or with resource equal to the requested    *)
(* worker, is refused; a block on another worker refuses nothing.          *)
C6_BlocksRejectBookings ==
    (last.op = "create" /\ WellFormedInBusiness(last, now))
    => /\ (\E i \in BlocksHit(last) : blocks[i].resource \in {"null", last.worker})
            => (last.code # "CREATED" /\ last.id = 0)
       /\ (/\ \A i \in BlocksHit(last) : blocks[i].resource \notin {"null", last.worker}
           /\ Conflicts(appts, BusinessOf(last.caller), last.worker, last.start,
                        last.start + last.duration * 60000, last.id) = {})
            => last.code = "CREATED"

(* The confirmed appointments of the client and business of the recorded   *)
(* create request, the one it stored left out                              *)
ConfirmedOfClient(l) ==
    {i \in DOMAIN appts :
        /\ i # l.id
        /\ appts[i].status = "confirmed"
        /\ appts[i].client = l.client
        /\ appts[i].business = BusinessOf(l.caller)}

(* C7: a create request of a client who has 3 confirmed appointments in    *)
(* the business stores nothing and, when nothing else is wrong with it,    *)
(* answers MAX_CONFIRMED_REACHED; with fewer than 3, as after a cancel, a  *)
(* request for a free slot is stored.                                      *)
C7_MaxConfirmedPerClient ==
    (last.op = "create" /\ WellFormedInBusiness(last, now))
    => LET free == Conflicts(appts, BusinessOf(last.caller), last.worker, last.start,
                             last.start + last.duration * 60000, last.id) = {}
       IN /\ (Cardinality(ConfirmedOfClient(last)) >= 3)
               => /\ last.code # "CREATED" /\ last.id = 0
                  /\ free => last.code = "MAX_CONFIRMED_REACHED"
          /\ (Cardinality(ConfirmedOfClient(last)) < 3 /\ free)
               => last.code = "CREATED"

(* The offset of the instant t inside its day, in milliseconds *)
OffsetInDay(t) == t % (24 * 60 * 60 * 1000)

C12_SearchTerminates ==
    /\ [](slots.pc = "done"
          => /\ last.code = "OK"
             /\ Len(slots.out) = SlotsK \/ slots.scanned = HorizonDays
             /\ slots.scanned <= HorizonDays
             /\ (Len(slots.out) = SlotsK)
                   => (slots.out[SlotsK] \div (24 * 60 * 60 * 1000) = slots.day - 1))
    /\ ((slots.pc = "run") ~> (slots.pc = "done"))

(* A search for a duration that fits the work day ended at the horizon     *)
(* with an empty list, the worker's confirmed appointment in the way.      *)
C12_Witness ==
    /\ slots.pc = "done"
    /\ slots.out = << >>
    /\ slots.scanned = HorizonDays
    /\ slots.duration <= WorkEndMin - WorkStartMin
    /\ \E i \in DOMAIN appts :
        appts[i].status = "confirmed" /\ appts[i].worker = slots.worker

(* What the fixed order of the preconditions answers to the recorded       *)
(* create request: the failure of the first precondition that fails        *)
FirstFailure(l) ==
    IF ~(l.duration >= 1 /\ l.duration <= 480 /\ l.price >= 0 /\ l.price <= 10000
         /\ l.start > now)
    THEN "VALIDATION_ERROR"
    ELSE IF BusinessOf(l.client) # BusinessOf(l.caller) THEN "CLIENT_NOT_IN_BUSINESS"
    ELSE IF BusinessOf(l.worker) # BusinessOf(l.caller) THEN "WORKER_NOT_IN_BUSINESS"
    ELSE IF Cardinality(ConfirmedOfClient(l)) >= 3 THEN "MAX_CONFIRMED_REACHED"
    ELSE IF Conflicts(appts, BusinessOf(l.caller), l.worker, l.start,
                      l.start + l.duration * 60000, l.id) # {}
    THEN "SLOT_TAKEN"
    ELSE "CREATED"

(* C13: a create request is answered with the failure of the first         *)
(* precondition it fails, in the order validation, client membership,      *)
(* worker membership, per-client cap of confirmed appointments, slot       *)
(* overlap, and is stored when it fails none.                              *)
C13_FirstFailingPrecondition ==
    (last.op = "create") => (last.code = FirstFailure(last))

(* C14: a create request answered CREATED adds one confirmed appointment   *)
(* whose service is the name, duration and price of the request and        *)
(* leaves the others as they were; an update or a deletion of a service of *)
(* the business changes no appointment, so no occupied interval.           *)
C14_ServiceCopiedByValue ==
    [][/\ (last'.op = "create" /\ last'.code = "CREATED")
            => /\ Len(appts') = Len(appts) + 1
               /\ SubSeq(appts', 1, Len(appts)) = appts
               /\ appts'[Len(appts')].status = "confirmed"
               /\ appts'[Len(appts')].service =
                      [name |-> last'.name, duration |-> last'.duration,
                       price |-> last'.price]
       /\ (last'.op \in {"service_update", "service_delete"})
            => /\ appts' = appts
               /\ \A i \in DOMAIN appts : IntervalEnd(appts'[i]) = IntervalEnd(appts[i])]_vars

(* The admin changed the duration of a service, or deleted it, after a     *)
(* client booked it: the appointment keeps the name and the duration it    *)
(* was booked with, which the business no longer offers.                   *)
C14_Witness ==
    /\ last.op \in {"service_update", "service_delete"} /\ last.code = "OK"
    /\ \E i \in DOMAIN appts :
        /\ appts[i].status = "confirmed"
        /\ appts[i].service.name = "color"
        /\ appts[i].service.duration = 2
        /\ \A k \in DOMAIN services["b1"] :
              ~(/\ services["b1"][k].name = "color"
                /\ services["b1"][k].duration = 2)

(* C15: the answer of a signup and the user it stores are decided by the   *)
(* phone number and the stored users alone, whatever the notification of   *)
(* the admins does (lookup fails, push throws, delivery fails, sent, no    *)
(* recipient), and notifyAdmins never raises to the handler.               *)
C15_NotificationNeverDecides ==
    [][(last'.op \in {"signup", "signup_old"})
       => LET phone == toE164IL(last'.phone)
              taken == \E u \in DOMAIN users :
                          users[u].phone = phone /\ users[u].business = last'.business
          IN /\ last'.code = IF last'.phone = << >> THEN "INVALID_PHONE"
                             ELSE IF taken THEN "USER_EXISTS" ELSE "OK"
             /\ (last'.code # "OK") => (users' = users)
             /\ (last'.code = "OK")
                   => /\ DOMAIN users' = DOMAIN users \cup {last'.client}
                      /\ last'.client \notin DOMAIN users
                      /\ \A u \in DOMAIN users : users'[u] = users[u]
                      /\ users'[last'.client].phone = phone
                      /\ users'[last'.client].business = last'.business
                      /\ users'[last'.client].role = "user"
             /\ last'.notify # "raised"]_vars

(* The same without its last clause: what the notification does changes    *)
(* neither the answer nor the stored user.                                 *)
SignupDecidedByPersistence ==
    [][(last'.op \in {"signup", "signup_old"})
       => LET phone == toE164IL(last'.phone)
              taken == \E u \in DOMAIN users :
                          users[u].phone = phone /\ users[u].business = last'.business
          IN /\ last'.code = IF last'.phone = << >> THEN "INVALID_PHONE"
                             ELSE IF taken THEN "USER_EXISTS" ELSE "OK"
             /\ (last'.code # "OK") => (users' = users)
             /\ (last'.code = "OK") => (DOMAIN users' = DOMAIN users \cup {last'.client})]_vars

(* C16: a well-formed create request whose interval intersects an          *)
(* appointment of the same business and worker that is canceled, completed *)
(* or no_show, at the identical start too, and intersects no confirmed     *)
(* one, is answered CREATED and stored as confirmed.                       *)
C16_OnlyConfirmedOccupies ==
    [][(/\ last'.op = "create"
        /\ WellFormedInBusiness(last', now)
        /\ LET e == last'.start + last'.duration * 60000 IN
           /\ \E i \in DOMAIN appts :
                /\ appts[i].status \in {"canceled", "completed", "no_show"}
                /\ appts[i].business = BusinessOf(last'.caller)
                /\ appts[i].worker = last'.worker
                /\ Intersects(last'.start, e, appts[i].start, IntervalEnd(appts[i]))
           /\ Conflicts(appts, BusinessOf(last'.caller), last'.worker,
                        last'.start, e, 0) = {})
       => /\ last'.code = "CREATED"
          /\ Len(appts') = Len(appts) + 1
          /\ appts'[Len(appts')].status = "confirmed"
          /\ appts'[Len(appts')].start = last'.start
          /\ appts'[Len(appts')].worker = last'.worker]_vars

(* An appointment was booked at the very start of a no_show appointment of *)
(* the same worker.                                                        *)
C16_Witness ==
    /\ last.op = "create" /\ last.code = "CREATED"
    /\ \E i \in DOMAIN appts :
        /\ i # last.id
        /\ appts[i].status = "no_show"
        /\ SameSchedule(appts[i], appts[last.id])
        /\ appts[i].start = appts[last.id].start

(* The worker whose schedule the request recorded in l is about, given the *)
(* appointments before it ran                                              *)
WorkerOf(l, store) ==
    IF l.op = "create" THEN l.worker
    ELSE IF l.id \in DOMAIN store THEN store[l.id].worker
    ELSE "none"

(* C17: a create request, or a status change to confirmed, is answered     *)
(* SLOT_TAKEN only when a confirmed appointment of the same worker         *)
(* intersects it, so it goes through whatever the other workers of the     *)
(* business hold at that time; and a create, status change or cancel       *)
(* leaves every appointment of every other worker as it was.               *)
C17_WorkersIndependent ==
    [][/\ (last'.op = "create" /\ WellFormedInBusiness(last', now))
            => LET own == Conflicts(appts, BusinessOf(last'.caller), last'.worker,
                                    last'.start, last'.start + last'.duration * 60000, 0)
               IN (own = {}) => (last'.code = "CREATED")
       /\ (/\ last'.op = "status" /\ last'.status = "confirmed"
           /\ last'.id \in DOMAIN appts
           /\ users[last'.caller].role = "admin"
           /\ appts[last'.id].business = BusinessOf(last'.caller))
            => LET a == appts[last'.id]
                   own == Conflicts(appts, a.business, a.worker, a.start,
                                    IntervalEnd(a), last'.id)
               IN (own = {}) => (last'.code = "OK" /\ appts'[last'.id].status = "confirmed")
       /\ (last'.op \in {"create", "status", "cancel"})
            => \A i \in DOMAIN appts :
                  (appts[i].worker # WorkerOf(last', appts)) => (appts'[i] = appts[i])]_vars

(* An appointment was booked for one worker at the start at which another  *)
(* worker of the business holds a confirmed appointment, and both stand.   *)
C17_Witness ==
    /\ last.op = "create" /\ last.code = "CREATED"
    /\ \E j \in DOMAIN appts :
        /\ j < last.id
        /\ appts[j].status = "confirmed" /\ appts[last.id].status = "confirmed"
        /\ appts[j].business = appts[last.id].business
        /\ appts[j].worker # appts[last.id].worker
        /\ appts[j].start = appts[last.id].start

(* The payload of the recorded block update passes updateBlockSchema *)
ValidBlockUpdate(l) ==
    /\ l.has # {}
    /\ ("end" \in l.has) => ("start" \in l.has /\ l.end > l.start)

(* C18: an admin's status change, block update or block soft-delete aimed  *)
(* at a record of another business, and a client's cancel aimed at an      *)
(* appointment of another business or of another client, answer NOT_FOUND  *)
(* and change nothing; no request changes an appointment or a block of a   *)
(* business other than the caller's.                                       *)
C18_TenantIsolation ==
    [][(last'.op # "none")
       => LET mine == BusinessOf(last'.caller)
              admin == users[last'.caller].role = "admin"
          IN /\ (/\ last'.op = "status" /\ admin
                 /\ last'.id \in DOMAIN appts
                 /\ appts[last'.id].business # mine)
                   => (last'.code = "NOT_FOUND" /\ appts' = appts)
             /\ (/\ last'.op = "cancel"
                 /\ last'.id \in DOMAIN appts
                 /\ (appts[last'.id].business # mine
                        \/ appts[last'.id].client # last'.caller))
                   => (last'.code = "NOT_FOUND" /\ appts' = appts)
             /\ (/\ last'.op = "block_update" /\ admin /\ ValidBlockUpdate(last')
                 /\ last'.id \in DOMAIN blocks
                 /\ blocks[last'.id].business # mine)
                   => (last'.code = "NOT_FOUND" /\ blocks' = blocks)
             /\ (/\ last'.op = "block_delete" /\ admin
                 /\ last'.id \in DOMAIN blocks
                 /\ blocks[last'.id].business # mine)
                   => (last'.code = "NOT_FOUND" /\ blocks' = blocks)
             /\ \A i \in DOMAIN appts :
                   (appts[i].business # mine) => (appts'[i] = appts[i])
             /\ \A i \in DOMAIN blocks :
                   (blocks[i].business # mine) => (blocks'[i] = blocks[i])]_vars

(* The admin of one business asked to cancel a confirmed appointment of    *)
(* the other business by a status change; the answer was NOT_FOUND and the *)
(* appointment is still confirmed.                                         *)
C18_Witness ==
    /\ last.op = "status" /\ last.status = "canceled" /\ last.code = "NOT_FOUND"
    /\ users[last.caller].role = "admin"
    /\ last.id \in DOMAIN appts
    /\ appts[last.id].business # BusinessOf(last.caller)
    /\ appts[last.id].status = "confirmed"

(* C19: an appointment stored for a create request of a caller who is not  *)
(* an admin has the caller's id as its client.                             *)
C19_ClientBooksOnlyForSelf ==
    (/\ last.op = "create" /\ last.code = "CREATED"
     /\ users[last.caller].role # "admin")
    => appts[last.id].client = last.caller

(* C20: every stored block ends after it starts, whatever blocks were      *)
(* created, updated and soft-deleted.                                      *)
C20_BlockEndAfterStart ==
    \A i \in DOMAIN blocks : blocks[i].end > blocks[i].start

(* C21: blocks are never removed.  No step shortens the block store; a     *)
(* DELETE /blocks/:id changes at most the active flag of the block it      *)
(* names, to FALSE, so a block already inactive stays inactive; and a      *)
(* block that is inactive is in the result of no by-day query and of no    *)
(* list query that does not ask for the inactive ones.                     *)
C21_BlocksSoftDeleted ==
    [][/\ Len(blocks') >= Len(blocks)
       /\ (last'.op = "block_delete") =>
            /\ Len(blocks') = Len(blocks)
            /\ \A i \in DOMAIN blocks :
                 \/ blocks'[i] = blocks[i]
                 \/ /\ i = last'.id
                    /\ last'.code = "OK"
                    /\ blocks'[i] = [blocks[i] EXCEPT !.active = FALSE]
            /\ \A i \in DOMAIN blocks : ~blocks[i].active => ~blocks'[i].active
       /\ (\/ last'.op = "blocks_by_day"
           \/ last'.op = "blocks_list" /\ "includeInactive" \notin last'.has) =>
            \A i \in DOMAIN blocks' : ~blocks'[i].active => i \notin last'.result
      ]_vars

(* A by-day query of the block's own business, day and worker that leaves  *)
(* out a block because it is inactive                                      *)
C21_Witness ==
    /\ last.op = "blocks_by_day"
    /\ \E i \in DOMAIN blocks :
         /\ ~blocks[i].active
         /\ blocks[i].business = tokenData(last.caller).business
         /\ blocks[i].start < last.start + HOURS_24_MS
         /\ blocks[i].end > last.start
         /\ blocks[i].resource \in {"null", last.worker}
         /\ i \notin last.result

(* C22: a by-day query answers with every record of the caller's business  *)
(* and of the worker asked whose interval [start, end) intersects the day  *)
(* [dayStart, dayStart + 24 h): every such appointment, and every such     *)
(* active block of the worker or of the whole business, one that started   *)
(* the day before and ends inside the day included.                        *)
C22_ByDayIntersects ==
    /\ (last.op = "appts_by_day" /\ last.code = "OK") =>
         \A i \in DOMAIN appts :
            (/\ appts[i].business = tokenData(last.caller).business
             /\ appts[i].worker = last.worker
             /\ appts[i].start < last.start + HOURS_24_MS
             /\ ApptEnd(appts[i]) > last.start) => i \in last.result
    /\ (last.op = "blocks_by_day" /\ last.worker # "none") =>
         \A i \in DOMAIN blocks :
            (/\ blocks[i].business = tokenData(last.caller).business
             /\ blocks[i].active
             /\ blocks[i].resource \in {"null", last.worker}
             /\ blocks[i].start < last.start + HOURS_24_MS
             /\ blocks[i].end > last.start) => i \in last.result

(* The step is the write of the pending operation of kind op of process p *)
Commits(p, op) == ops[p].pc = "write" /\ ops[p].op = op /\ ops'[p].pc = "idle"

(* C23: a client cancel changes a status only from confirmed to canceled,  *)
(* and an appointment that is not confirmed becomes confirmed only by a    *)
(* status change of an admin.                                              *)
C23_CancelOnlyLeavesConfirmed ==
    [][\A i \in DOMAIN appts :
         (appts'[i].status # appts[i].status) =>
            /\ (last'.op = "cancel") =>
                 (appts[i].status = "confirmed" /\ appts'[i].status = "canceled")
            /\ (appts'[i].status = "confirmed") =>
                 (last'.op = "status" /\ users[last'.caller].role = "admin")
      ]_vars

(* C24: completed and no_show are set only by a status change of an admin, *)
(* and an appointment that is completed or no_show keeps its status in     *)
(* every later step.                                                       *)
C24_CompletedNoShowTerminal ==
    [][\A i \in DOMAIN appts :
         /\ (/\ appts'[i].status \in {"completed", "no_show"}
             /\ appts'[i].status # appts[i].status) =>
                (last'.op = "status" /\ users[last'.caller].role = "admin")
         /\ (appts[i].status \in {"completed", "no_show"}) =>
                appts'[i].status = appts[i].status
      ]_vars

(* C26: when the write of a status change to confirmed succeeds, no other  *)
(* confirmed appointment of the same business and worker overlaps the      *)
(* appointment confirmed, whatever ran between its reads and its write.    *)
C26_ReconfirmNeverOverlaps ==
    [][\A p \in Procs :
         (/\ Commits(p, "status")
          /\ ops[p].status = "confirmed"
          /\ last'.code = "OK") =>
            LET a == appts'[ops[p].id] IN
            FindOverlapping(appts', a.business, a.worker, a.start, ApptEnd(a),
                            ops[p].id) = {}
      ]_vars

(* C27: a write that the unique index on (business, worker, start) of the  *)
(* confirmed appointments rejects is answered SLOT_TAKEN, for a create and *)
(* for a status change to confirmed.                                       *)
C27_IndexRejectionIsSlotTaken ==
    [][/\ \A p \in Procs :
            (/\ Commits(p, "status")
             /\ UniqueIndexViolated(appts,
                                    [appts[ops[p].id] EXCEPT !.status = ops[p].status],
                                    ops[p].id)) =>
               last'.code = "SLOT_TAKEN"
       /\ (/\ last'.op = "create"
           /\ last'.code \notin {"VALIDATION_ERROR", "CLIENT_NOT_IN_BUSINESS",
                                 "WORKER_NOT_IN_BUSINESS"}
           /\ \E i \in DOMAIN appts :
                /\ appts[i].status = "confirmed"
                /\ appts[i].business = tokenData(last'.caller).business
                /\ appts[i].worker = last'.worker
                /\ appts[i].start = last'.start) =>
              last'.code = "SLOT_TAKEN"
      ]_vars

(* C28: the write of a client cancel changes the status only when the      *)
(* appointment is confirmed at that moment; any other status, set by a     *)
(* status change after the cancel read the appointment, stays.             *)
C28_CancelWritesOnlyConfirmed ==
    [][\A p \in Procs :
         (Commits(p, "cancel") /\ appts[ops[p].id].status # "confirmed") =>
            appts'[ops[p].id].status = appts[ops[p].id].status
      ]_vars

(* The stored users with a phone and a business *)
UsersWithKey(store, phone, businessId) ==
    {u \in DOMAIN store : store[u].phone = phone /\ store[u].business = businessId}

(* C25: no two stored users have the same phone and business, whatever the *)
(* interleaving of the signups; and of the signups that reach their create *)
(* with the same normalised phone and business exactly one creates a user: *)
(* after a create step one user has that phone and business, the step      *)
(* stored a user exactly when none had them, and only then answers OK.     *)
C25_PhoneUniquePerBusiness ==
    [][/\ \A u, v \in DOMAIN users' :
            (u # v) => ~(/\ users'[u].phone = users'[v].phone
                         /\ users'[u].business = users'[v].business)
       /\ \A p \in Procs :
            Commits(p, "signup") =>
               /\ Cardinality(UsersWithKey(users', ops[p].phone, ops[p].business)) = 1
               /\ (users' # users) <=>
                     (UsersWithKey(users, ops[p].phone, ops[p].business) = {})
               /\ (last'.code = "OK") <=> (users' # users)
      ]_vars

(* Two signups with one phone and business were both past their lookup:    *)
(* the second create was rejected and one user has the phone               *)
C25_Witness ==
    /\ last.op = "signup"
    /\ last.code = "SERVER_ERROR"
    /\ Cardinality(UsersWithKey(users, last.phone, last.business)) = 1
    /\ \E u \in DOMAIN users \ UserIds :
         users[u].phone = last.phone /\ users[u].business = last.business

(* C29: every user in the worker list of a business belongs to that        *)
(* business, and an add-worker request of an admin of one business neither *)
(* adds nor changes a user of another business.                            *)
C29_WorkersBelongToBusiness ==
    [][/\ \A b \in Businesses :
            \A i \in DOMAIN biz'[b].workers : users'[biz'[b].workers[i]].business = b
       /\ (last'.op = "add_worker") =>
            \A u \in DOMAIN users :
               (users[u].business # users[last'.caller].business) =>
                  /\ users'[u] = users[u]
                  /\ InSeq(u, biz'[users[last'.caller].business].workers)
                       => InSeq(u, biz[users[last'.caller].business].workers)
      ]_vars

(* C30: an add-worker request that is not answered with success leaves the *)
(* users and the businesses as they were.                                  *)
C30_FailedAddWorkerChangesNothing ==
    [][(last'.op = "add_worker" /\ last'.code # "OK") =>
          (users' = users /\ biz' = biz)
      ]_vars

====
